---- MODULE Spec2Model ----
(***************************************************************************)
(* The order reconciliation pipeline of preorder-gather.py: the order      *)
(* classifier and quantity aggregator (process_order), the catalog         *)
(* resolver (get_catalog_item, is_market_item), the customer merge         *)
(* (save_customer_orders) and the product summary with its validation      *)
(* (save_preorder_data).                                                   *)
(*                                                                         *)
(* Python strings that the code inspects (customer names, item names,      *)
(* quantities) are sequences of one-character strings, so that `in`,       *)
(* len(), lower() and float() are computed.  Identifiers the code only     *)
(* compares for equality (order ids, catalog ids, states) are strings.     *)
(* A dict is a sequence of entries in insertion order, as in Python.       *)
(***************************************************************************)
EXTENDS Integers, Sequences, FiniteSets, TLC

VARIABLES
    pc,                   \* where main() stands
    orders,               \* the orders of the search response, in response order
    idx,                  \* how many of them the loop of main() has processed
    results,              \* the value process_order returned for each of them
    ORDER_STATUS_COUNTS,  \* status -> count
    ITEM_QUANTITIES,      \* dict: catalog id -> name, quantity, qty_in_carts
    CUSTOMER_ORDERS,      \* dict: customer name -> list of order details
    CATALOG_ITEMS_CACHE,  \* catalog id -> catalog object
    cacheFile,            \* what catalog_cache.json holds
    catalog,              \* the catalog of the remote API: id -> object
    fetches,              \* the catalog requests sent so far: [id, ok]
    calls,                \* the lookups of the callers of get_catalog_item: [product, id, found]
    args,                 \* the command line: skip_preorders, skip_customer_orders
    DESIGNER_ROOM_NUMBERS,\* designer -> room number
    sheets,               \* the worksheets of GOOGLE_SHEET_URL: title -> rows
    customer_sheets,      \* the worksheets of SECOND_SHEET_URL: title -> rows
    sink,                 \* the write operations sent to the sink, and the sleeps
    printed,              \* the diagnostics printed
    preorders,            \* what save_preorder_data returned, and its locals
    customers,            \* what save_customer_orders returned, and its locals
    environ,              \* the values .env, .creds and the command line give the run
    network,              \* the requests sent to the order API
    exit_code             \* the exit status: <<>> while the interpreter runs

orderVars == <<orders, idx, results, ORDER_STATUS_COUNTS, ITEM_QUANTITIES, CUSTOMER_ORDERS>>
catalogVars == <<CATALOG_ITEMS_CACHE, cacheFile, catalog, fetches, calls>>
reportVars == <<args, DESIGNER_ROOM_NUMBERS, sheets, customer_sheets, sink, printed,
                preorders, customers>>
runVars == <<environ, network, exit_code>>
vars == <<pc, orderVars, catalogVars, reportVars, runVars>>

None == "None"

(***************************************************************************)
(* Strings                                                                 *)
(***************************************************************************)
\* Python's `a in b` for strings: a occurs in b as a contiguous run.
IsSubstring(a, b) ==
    \E i \in 0..(Len(b) - Len(a)) : \A k \in 1..Len(a) : b[i + k] = a[k]

RECURSIVE SumSeq(_)
SumSeq(s) == IF s = <<>> THEN 0 ELSE Head(s) + SumSeq(Tail(s))

RECURSIVE Flatten(_)
Flatten(ss) == IF ss = <<>> THEN <<>> ELSE Head(ss) \o Flatten(Tail(ss))

SeqsUpTo(S, n) == UNION {[1..k -> S] : k \in 0..n}

Digits == <<"0", "1", "2", "3", "4", "5", "6", "7", "8", "9">>
IsDigit(c) == \E d \in DOMAIN Digits : Digits[d] = c
DigitVal(c) == (CHOOSE d \in DOMAIN Digits : Digits[d] = c) - 1

RECURSIVE DigitsValue(_)
DigitsValue(ds) ==
    IF ds = <<>> THEN 0
    ELSE DigitsValue(SubSeq(ds, 1, Len(ds) - 1)) * 10 + DigitVal(ds[Len(ds)])

RECURSIVE Pow10(_)
Pow10(n) == IF n = 0 THEN 1 ELSE 10 * Pow10(n - 1)

\* float(s) for a decimal string: an optional sign, digits, an optional point
\* and digits, with at least one digit; anything else raises ValueError.
\* The value is num / den.
ParseFloat(s) ==
    LET signed == Len(s) > 0 /\ s[1] \in {"-", "+"}
        body   == IF signed THEN Tail(s) ELSE s
        points == {i \in DOMAIN body : body[i] = "."}
        p      == IF points = {} THEN Len(body) + 1 ELSE CHOOSE i \in points : TRUE
        whole  == SubSeq(body, 1, p - 1)
        frac   == SubSeq(body, p + 1, Len(body))
        ok     == /\ Cardinality(points) <= 1
                  /\ Len(whole) + Len(frac) > 0
                  /\ \A i \in DOMAIN whole : IsDigit(whole[i])
                  /\ \A i \in DOMAIN frac : IsDigit(frac[i])
        mag    == DigitsValue(whole) * Pow10(Len(frac)) + DigitsValue(frac)
    IN  IF ~ok THEN [ok |-> FALSE, num |-> 0, den |-> 1]
        ELSE [ok  |-> TRUE,
              num |-> IF signed /\ s[1] = "-" THEN -mag ELSE mag,
              den |-> Pow10(Len(frac))]

\* int(x) of a float: truncation toward zero.
IntOfFloat(f) ==
    IF f.num >= 0 THEN f.num \div f.den ELSE -((-f.num) \div f.den)

\* The printable ASCII characters in code point order, from 32 on (the grave
\* accent, 96, cannot be written in a string here: its place is held).
Ascii ==
    <<" ", "!", "\"", "#", "$", "%", "&", "'", "(", ")", "*", "+", ",", "-", ".", "/",
      "0", "1", "2", "3", "4", "5", "6", "7", "8", "9", ":", ";", "<", "=", ">", "?",
      "@", "A", "B", "C", "D", "E", "F", "G", "H", "I", "J", "K", "L", "M", "N", "O",
      "P", "Q", "R", "S", "T", "U", "V", "W", "X", "Y", "Z", "[", "\\", "]", "^", "_",
      "grave", "a", "b", "c", "d", "e", "f", "g", "h", "i", "j", "k", "l", "m", "n", "o",
      "p", "q", "r", "s", "t", "u", "v", "w", "x", "y", "z", "{", "|", "}", "~">>

\* ord(c)
Ord(c) == 31 + (CHOOSE i \in DOMAIN Ascii : Ascii[i] = c)

IsUpper(c) == Ord(c) \in 65..90
IsLowerCase(c) == Ord(c) \in 97..122

\* str.lower()
lower(s) == [i \in DOMAIN s |-> IF IsUpper(s[i]) THEN Ascii[Ord(s[i]) + 1] ELSE s[i]]

\* c.isalnum(), c.isspace()
isalnum(c) == IsUpper(c) \/ IsLowerCase(c) \/ IsDigit(c)
isspace(c) == c = " "

\* a < b for Python strings: by code point at the first difference, a proper
\* prefix first
StrLess(a, b) ==
    LET n == IF Len(a) < Len(b) THEN Len(a) ELSE Len(b)
        diff == {i \in 1..n : a[i] # b[i]}
    IN  IF diff = {} THEN Len(a) < Len(b)
        ELSE LET i == CHOOSE d \in diff : \A e \in diff : d <= e
             IN  Ord(a[i]) < Ord(b[i])

\* sorted(S) for a set of strings
sorted(S) ==
    [p \in 1..Cardinality(S) |->
        CHOOSE x \in S : Cardinality({y \in S : StrLess(y, x)}) = p - 1]

\* list.sort(key=...): stable; less[i, j] says that the key of s[i] is smaller
\* than the key of s[j]
StableSort(s, less) ==
    LET before(i) == {j \in DOMAIN s : less[j, i] \/ (~less[i, j] /\ j < i)}
    IN  [p \in DOMAIN s |-> s[CHOOSE i \in DOMAIN s : Cardinality(before(i)) = p - 1]]

\* s.startswith(p)
startswith(s, p) == Len(p) <= Len(s) /\ SubSeq(s, 1, Len(p)) = p

\* s.find(sub) counted from 1: the first position where sub occurs, 0 if none
find(s, sub) ==
    LET at == {i \in 1..(Len(s) - Len(sub) + 1) : SubSeq(s, i, i + Len(sub) - 1) = sub}
    IN  IF at = {} THEN 0 ELSE CHOOSE i \in at : \A j \in at : i <= j

\* s.split(sep) for a non-empty sep
RECURSIVE split(_, _)
split(s, sep) ==
    LET i == find(s, sep)
    IN  IF i = 0 THEN <<s>>
        ELSE <<SubSeq(s, 1, i - 1)>> \o split(SubSeq(s, i + Len(sep), Len(s)), sep)

\* s.strip()
strip(s) ==
    LET solid == {i \in DOMAIN s : ~isspace(s[i])}
    IN  IF solid = {} THEN <<>>
        ELSE SubSeq(s, CHOOSE i \in solid : \A j \in solid : i <= j,
                       CHOOSE i \in solid : \A j \in solid : i >= j)

\* int(s) for a string: blanks around, an optional sign, digits; anything
\* else raises ValueError.  [ok, value]
ParseInt(s) ==
    LET t == strip(s)
        signed == Len(t) > 0 /\ t[1] \in {"-", "+"}
        body == IF signed THEN Tail(t) ELSE t
        ok == Len(body) > 0 /\ \A i \in DOMAIN body : IsDigit(body[i])
    IN  [ok |-> ok,
         value |-> IF ~ok THEN 0
                   ELSE IF signed /\ t[1] = "-" THEN -DigitsValue(body) ELSE DigitsValue(body)]

\* a Python str literal as a sequence of characters
By == <<" ", "b", "y", " ">>
PreOrderPrefix == <<"P", "R", "E", "-", "O", "R", "D", "E", "R", ":", " ">>
UnknownDesigner == <<"U", "n", "k", "n", "o", "w", "n", " ", "D", "e", "s", "i", "g", "n", "e", "r">>

\* re.search of the pattern " - ([^(]+)" in s: the group of the leftmost
\* match, ok FALSE when nothing matches
SearchDashGroup(s) ==
    LET at == {i \in 1..(Len(s) - 3) : SubSeq(s, i, i + 2) = <<" ", "-", " ">> /\ s[i + 3] # "("}
    IN  IF at = {} THEN [ok |-> FALSE, group |-> <<>>]
        ELSE LET i == CHOOSE a \in at : \A b \in at : a <= b
                 stops == {j \in (i + 3)..Len(s) : s[j] = "("}
                 last == IF stops = {} THEN Len(s)
                         ELSE (CHOOSE j \in stops : \A k \in stops : j <= k) - 1
             IN  [ok |-> TRUE, group |-> SubSeq(s, i + 3, last)]

extract_designer_name(item_name) ==
    IF IsSubstring(By, item_name) THEN split(item_name, By)[2]
    ELSE IF IsSubstring(<<"-", "c", "o", "u", "n", "t">>, item_name) /\ SearchDashGroup(item_name).ok
         THEN strip(SearchDashGroup(item_name).group)
    ELSE UnknownDesigner

extract_item_name(item_name) ==
    LET return_value == IF IsSubstring(By, item_name) THEN split(item_name, By)[1] ELSE item_name
    IN  IF startswith(return_value, PreOrderPrefix)
        THEN SubSeq(return_value, 12, Len(return_value))
        ELSE return_value

\* process_item_details: <<preorder_status, designer, clean_name>>
process_item_details(item_name) ==
    IF startswith(item_name, PreOrderPrefix)
    THEN <<<<>>, extract_designer_name(item_name), extract_item_name(item_name)>>
    ELSE <<<<"N", "o">>, <<>>, item_name>>

(***************************************************************************)
(* Program constants                                                       *)
(***************************************************************************)
COMPLETED_ORDER_NAME == <<"S", "c", "o", "t", "t", " ", "W", "a", "g", "n", "e", "r">>
DO_NOT_PROCESS_ORDER_IDS == {"WSFVqjYiFrqhAhemUkibkGP5YvBZY", "OO59PA9nVbYnK5xjnE5EJor3GFSZY"}
NA == <<"N", "/", "A">>
Regular == <<"R", "e", "g", "u", "l", "a", "r">>

Statuses == {"NOT_FULFILLED", "PICKED_UP", "COMPLETED", "NO_FULFILLMENT",
             "STILL_SHOPPING", "CANCELED"}

(***************************************************************************)
(* class Order, class OrderItem                                            *)
(*                                                                         *)
(* A JSON object is a function from its keys: d.get(k, default) is         *)
(* Get(d, k, default), the empty object is <<>>.  An order holds id,       *)
(* created_at, state, net_amount_due_money, fulfillments and line_items; a *)
(* fulfillment holds state, pickup_details and shipment_details, each with *)
(* a recipient; a line item holds catalog_object_id, name, variation_name  *)
(* and quantity.                                                           *)
(***************************************************************************)
Get(d, k, default) == IF k \in DOMAIN d THEN d[k] ELSE default

\* Order._get_first_fulfillment: None when the order has no fulfillment
HasFulfillment(order) == Get(order, "fulfillments", <<>>) # <<>>
fulfillment(order) == Get(order, "fulfillments", <<>>)[1]

get_order_id(order) == Get(order, "id", "N/A")

get_created_at(order) == Get(order, "created_at", "N/A")

get_amount_due(order) == Get(Get(order, "net_amount_due_money", <<>>), "amount", 0)

get_fulfillment_status(order) ==
    IF ~HasFulfillment(order) THEN "NO_FULFILLMENT"
    ELSE Get(fulfillment(order), "state", "")

get_line_items(order) == Get(order, "line_items", <<>>)

\* get_customer_info(order)['name']
get_customer_name(order) ==
    IF ~HasFulfillment(order) THEN NA
    ELSE LET pickup_details == Get(fulfillment(order), "pickup_details", <<>>)
             pickup         == Get(pickup_details, "recipient", <<>>)
             recipient      == IF pickup = <<>>
                               THEN Get(Get(fulfillment(order), "shipment_details", <<>>),
                                        "recipient", <<>>)
                               ELSE pickup
         IN  Get(recipient, "display_name", NA)

get_state(order) == Get(order, "state", "")

is_cancelled(order) == get_state(order) = "CANCELED"

\* a variant that forgets the DRAFT state
is_still_shopping_amount_only(order) == get_amount_due(order) > 0

is_still_shopping(order) == get_amount_due(order) > 0 \/ get_state(order) = "DRAFT"

is_completed_or_picked_up(order) ==
    get_fulfillment_status(order) \in {"COMPLETED", "PICKED_UP"}

\* OrderItem.get_name
get_name(item) ==
    LET variation == Get(item, "variation_name", <<>>)
    IN  IF variation \notin {Regular, <<>>}
        THEN item.name \o <<" ", "(">> \o variation \o <<")">>
        ELSE Get(item, "name", <<>>)

(***************************************************************************)
(* Dicts in insertion order                                                *)
(***************************************************************************)
HasKey(d, k) == \E i \in DOMAIN d : d[i].key = k
KeyIndex(d, k) == CHOOSE i \in DOMAIN d : d[i].key = k
Keys(d) == {d[i].key : i \in DOMAIN d}

\* ITEM_QUANTITIES[id]['quantity'], 0 for an id the dict does not hold
QuantityOf(iq, id) == IF HasKey(iq, id) THEN iq[KeyIndex(iq, id)].quantity ELSE 0

\* CUSTOMER_ORDERS[name], the empty list for a name the dict does not hold
HistoryOf(co, name) == IF HasKey(co, name) THEN co[KeyIndex(co, name)].orders ELSE <<>>

(***************************************************************************)
(* process_order                                                           *)
(***************************************************************************)
Bump(counts, status) == [counts EXCEPT ![status] = @ + 1]

\* int(float(item.get('quantity', 0))): [ok, value]; ok is FALSE when float()
\* raises
ParseQuantity(item) ==
    IF "quantity" \notin DOMAIN item THEN [ok |-> TRUE, value |-> 0]
    ELSE LET f == ParseFloat(item.quantity)
         IN  [ok |-> f.ok, value |-> IF f.ok THEN IntOfFloat(f) ELSE 0]

\* `if catalog_object_id:`
Truthy(id) == id # None /\ id # ""

\* a variant that assigns the quantity of a later occurrence instead of adding it
AddQuantityAssigning(iq, id, name, quantity) ==
    IF ~HasKey(iq, id)
    THEN Append(iq, [key |-> id, name |-> name, quantity |-> quantity, qty_in_carts |-> 0])
    ELSE [iq EXCEPT ![KeyIndex(iq, id)].quantity = quantity]

\* the update of ITEM_QUANTITIES for one line item
AddQuantity(iq, id, name, quantity) ==
    IF ~HasKey(iq, id)
    THEN Append(iq, [key |-> id, name |-> name, quantity |-> quantity, qty_in_carts |-> 0])
    ELSE [iq EXCEPT ![KeyIndex(iq, id)].quantity = @ + quantity]

\* The loop over the line items from item k on.  acc holds ITEM_QUANTITIES,
\* order_details['items'] and whether an exception has left the loop.
RECURSIVE LineItemsLoop(_, _, _)
LineItemsLoop(items, k, acc) ==
    IF k > Len(items) \/ acc.raised THEN acc
    ELSE LET item == items[k]
             catalog_object_id == Get(item, "catalog_object_id", None)
             q == ParseQuantity(item)
         IN  IF ~q.ok THEN [acc EXCEPT !.raised = TRUE]
             ELSE LineItemsLoop(items, k + 1,
                    [iq     |-> IF Truthy(catalog_object_id)
                                THEN AddQuantity(acc.iq, catalog_object_id, get_name(item), q.value)
                                ELSE acc.iq,
                     items  |-> Append(acc.items, [name |-> get_name(item), quantity |-> q.value]),
                     raised |-> FALSE])

\* a variant without the override
process_order_never_anyway(customer_name) == FALSE

\* `process_order_anyway = customer_name == COMPLETED_ORDER_NAME`
process_order_anyway(customer_name) == customer_name = COMPLETED_ORDER_NAME

\* a variant that adds the line items of a skipped order to the totals
SkipButAddItems(order, st, status) ==
    [counts |-> Bump(st.counts, status),
     iq |-> LineItemsLoop(get_line_items(order), 1,
                          [iq |-> st.iq, items |-> <<>>, raised |-> FALSE]).iq,
     co |-> st.co, ret |-> FALSE]

\* An early `return False` of process_order after counting the order under
\* status: the totals and the histories are not touched.
Skip(order, st, status) ==
    [counts |-> Bump(st.counts, status), iq |-> st.iq, co |-> st.co, ret |-> FALSE]

\* a variant that returns True for an order whose line items raised
AggregateReturningTrue(order, st) ==
    LET customer_name == get_customer_name(order)
        co1 == IF HasKey(st.co, customer_name) THEN st.co
               ELSE Append(st.co, [key |-> customer_name, orders |-> <<>>])
        loop == LineItemsLoop(get_line_items(order), 1,
                              [iq |-> st.iq, items |-> <<>>, raised |-> FALSE])
    IN  [counts |-> Bump(st.counts, "NOT_FULFILLED"), iq |-> loop.iq, co |-> co1, ret |-> TRUE]

\* Lines 356-408: the order is counted NOT_FULFILLED, its customer gets an
\* entry, its line items are added, its details are appended.  An exception
\* in the loop is caught at the end of process_order, which returns False and
\* keeps what was assigned before it.
Aggregate(order, st) ==
    LET customer_name == get_customer_name(order)
        counts == Bump(st.counts, "NOT_FULFILLED")
        co1 == IF HasKey(st.co, customer_name) THEN st.co
               ELSE Append(st.co, [key |-> customer_name, orders |-> <<>>])
        loop == LineItemsLoop(get_line_items(order), 1,
                              [iq |-> st.iq, items |-> <<>>, raised |-> FALSE])
        order_details == [order_id   |-> get_order_id(order),
                          created_at |-> get_created_at(order),
                          status     |-> get_fulfillment_status(order),
                          items      |-> loop.items]
    IN  IF loop.raised
        THEN [counts |-> counts, iq |-> loop.iq, co |-> co1, ret |-> FALSE]
        ELSE [counts |-> counts, iq |-> loop.iq,
              co |-> [co1 EXCEPT ![KeyIndex(co1, customer_name)].orders =
                                     Append(@, order_details)],
              ret |-> TRUE]

\* process_order on the globals st = [counts, iq, co]: the globals it leaves
\* and the value it returns.
process_order(order, st) ==
    LET anyway == process_order_anyway(get_customer_name(order))
    IN  IF ~HasFulfillment(order) THEN Skip(order, st, "NO_FULFILLMENT")
        ELSE IF get_order_id(order) \in DO_NOT_PROCESS_ORDER_IDS
             THEN [counts |-> st.counts, iq |-> st.iq, co |-> st.co, ret |-> FALSE]
        ELSE IF ~anyway /\ is_still_shopping(order) THEN Skip(order, st, "STILL_SHOPPING")
        ELSE IF ~anyway /\ is_completed_or_picked_up(order)
             THEN Skip(order, st, get_fulfillment_status(order))
        ELSE IF ~anyway /\ is_cancelled(order) THEN Skip(order, st, "CANCELED")
        ELSE Aggregate(order, st)

Globals == [counts |-> ORDER_STATUS_COUNTS, iq |-> ITEM_QUANTITIES, co |-> CUSTOMER_ORDERS]

\* one turn of `sum(1 for order in orders if process_order(order, sheets_client))`
ProcessOrder ==
    /\ pc = "orders"
    /\ idx < Len(orders)
    /\ \E r \in {process_order(orders[idx + 1], Globals)} :
           /\ ORDER_STATUS_COUNTS' = r.counts
           /\ ITEM_QUANTITIES' = r.iq
           /\ CUSTOMER_ORDERS' = r.co
           /\ results' = Append(results, r.ret)
    /\ idx' = idx + 1
    /\ pc' = IF idx' = Len(orders) THEN "save_preorder_data" ELSE "orders"
    /\ UNCHANGED <<orders, catalogVars, reportVars, runVars>>

(***************************************************************************)
(* get_catalog_item, is_market_item                                        *)
(*                                                                         *)
(* A catalog object is a JSON object: a variation holds type and           *)
(* item_variation_data.item_id (its parent), an item holds type and        *)
(* item_data.categories.  A request for an id the remote catalog does not  *)
(* hold fails (raise_for_status); any request can fail besides: a handler  *)
(* is given the set `failing` of the ordinals of its requests that fail.   *)
(* The resolver works on c = [cache, fetches, n, failing], n counting the  *)
(* requests of the handler.                                                *)
(***************************************************************************)
\* the id of the market category in the remote catalog
MarketCategory == "MARKET"

\* `MARKET_CATEGORY_ID = os.getenv('MARKET_CATEGORY_ID')`, None when unset
MARKET_CATEGORY_ID == environ.MARKET_CATEGORY_ID

PyNone == [none |-> TRUE]

Without(d, k) == [x \in DOMAIN d \ {k} |-> d[x]]

\* a variant that forgets to store the fetched object
StoreNothing(cache, item_id, item_data) == cache

\* CATALOG_ITEMS_CACHE[item_id] = item_data
Store(cache, item_id, item_data) == (item_id :> item_data) @@ cache

\* a variant that fetches the parent of a fetched variation without looking
\* into the cache, and goes no further
get_catalog_item_parent_unchecked(item_id, c) ==
    IF item_id \in DOMAIN c.cache THEN [c |-> c, value |-> c.cache[item_id]]
    ELSE LET ok == item_id \in DOMAIN catalog /\ (c.n + 1) \notin c.failing
             c1 == [c EXCEPT !.fetches = Append(@, [id |-> item_id, ok |-> ok]), !.n = @ + 1]
         IN  IF ~ok THEN [c |-> c1, value |-> PyNone]
             ELSE LET parent_item_id ==
                          Get(Get(catalog[item_id], "item_variation_data", <<>>), "item_id", "")
                      found == parent_item_id \in DOMAIN catalog
                      c2 == [c1 EXCEPT !.cache = Store(@, item_id, catalog[item_id])]
                  IN  IF parent_item_id = "" THEN [c |-> c2, value |-> catalog[item_id]]
                      ELSE [c |-> [c2 EXCEPT
                                     !.fetches = Append(@, [id |-> parent_item_id, ok |-> found]),
                                     !.n = @ + 1,
                                     !.cache = IF found
                                               THEN Store(@, parent_item_id, catalog[parent_item_id])
                                               ELSE @],
                            value |-> catalog[item_id]]

\* get_catalog_item(item_id): [c, value], value PyNone for None
RECURSIVE get_catalog_item(_, _)
get_catalog_item(item_id, c) ==
    IF item_id \in DOMAIN c.cache
    THEN LET return_value == c.cache[item_id]
             stale == /\ Get(return_value, "type", "") = "ITEM_VARIATION"
                      /\ DOMAIN Get(return_value, "parent_item", <<>>) # {}
             healed == IF stale THEN Without(return_value, "parent_item") ELSE return_value
         IN  [c |-> [c EXCEPT !.cache = IF stale THEN Store(@, item_id, healed) ELSE @],
              value |-> healed]
    ELSE LET n  == c.n + 1
             ok == item_id \in DOMAIN catalog /\ n \notin c.failing
             c1 == [c EXCEPT !.fetches = Append(@, [id |-> item_id, ok |-> ok]), !.n = n]
         IN  IF ~ok THEN [c |-> c1, value |-> PyNone]
             ELSE LET item_data == catalog[item_id]
                      c2 == [c1 EXCEPT !.cache = Store(@, item_id, item_data)]
                      parent_item_id ==
                          Get(Get(item_data, "item_variation_data", <<>>), "item_id", "")
                  IN  IF Get(item_data, "type", "") = "ITEM_VARIATION" /\ parent_item_id # ""
                      THEN [c |-> get_catalog_item(parent_item_id, c2).c, value |-> item_data]
                      ELSE [c |-> c2, value |-> item_data]

\* `if not item_data`, `if catalog_item`
Falsy(item_data) == item_data = PyNone \/ DOMAIN item_data = {}

RECURSIVE CategoryIds(_)
CategoryIds(categories) ==
    IF categories = <<>> THEN {}
    ELSE {Get(Head(categories), "id", "")} \cup CategoryIds(Tail(categories))

\* a variant that looks at the categories a plain item carries itself
is_market_item_or_plain(item_data, c) ==
    IF Falsy(item_data) THEN [c |-> c, value |-> FALSE, raised |-> FALSE]
    ELSE IF Get(item_data, "type", "") = "ITEM_VARIATION"
    THEN LET parent_item_id ==
                 Get(Get(item_data, "item_variation_data", <<>>), "item_id", "")
             r == get_catalog_item(parent_item_id, c)
         IN  IF r.value = PyNone THEN [c |-> r.c, value |-> FALSE, raised |-> TRUE]
             ELSE [c |-> r.c,
                   value |-> MARKET_CATEGORY_ID \in
                       CategoryIds(Get(Get(r.value, "item_data", <<>>), "categories", <<>>)),
                   raised |-> FALSE]
    ELSE [c |-> c,
          value |-> MARKET_CATEGORY_ID \in
              CategoryIds(Get(Get(item_data, "item_data", <<>>), "categories", <<>>)),
          raised |-> FALSE]

\* is_market_item(item_data): [c, value, raised]; raised when parent_item is
\* None and parent_item.get raises AttributeError
is_market_item(item_data, c) ==
    IF Falsy(item_data) THEN [c |-> c, value |-> FALSE, raised |-> FALSE]
    ELSE IF Get(item_data, "type", "") = "ITEM_VARIATION"
    THEN LET parent_item_id ==
                 Get(Get(item_data, "item_variation_data", <<>>), "item_id", "")
             r == get_catalog_item(parent_item_id, c)
         IN  IF r.value = PyNone THEN [c |-> r.c, value |-> FALSE, raised |-> TRUE]
             ELSE [c |-> r.c,
                   value |-> MARKET_CATEGORY_ID \in
                       CategoryIds(Get(Get(r.value, "item_data", <<>>), "categories", <<>>)),
                   raised |-> FALSE]
    ELSE [c |-> c, value |-> FALSE, raised |-> FALSE]

Variation(parent) == [type |-> "ITEM_VARIATION", item_variation_data |-> [item_id |-> parent]]

Item(categories) ==
    [type |-> "ITEM", item_data |-> [categories |-> [i \in DOMAIN categories |-> [id |-> categories[i]]]]]

Resolver(failing) ==
    [cache |-> CATALOG_ITEMS_CACHE, fetches |-> fetches, n |-> 0, failing |-> failing]

\* the globals of the catalog in a run that resolves nothing
CatalogIdle ==
    /\ catalog = <<>>
    /\ cacheFile = <<>>
    /\ CATALOG_ITEMS_CACHE = <<>>
    /\ fetches = <<>>
    /\ calls = <<>>

(***************************************************************************)
(* The sink                                                                *)
(*                                                                         *)
(* A spreadsheet is a function from worksheet titles to rows, a row a      *)
(* tuple of cells, an empty cell the empty string.  `sink` logs the write  *)
(* operations sent to the two spreadsheets and the sleeps between them;    *)
(* `printed` logs the diagnostics.  Requests to the sink succeed, and      *)
(* --debug-item is not given.                                              *)
(***************************************************************************)
Op(op, book, sheet) == [op |-> op, book |-> book, sheet |-> sheet]

\* time.sleep(RATE_LIMIT_SLEEP)
Sleep == Op("sleep", "", "")

Message(msg, detail) == [msg |-> msg, detail |-> detail]

BlankRow(width) == [i \in 1..width |-> <<>>]

Max(a, b) == IF a >= b THEN a ELSE b

\* worksheet.update(values, range_name): the rows from row `first` on are
\* replaced by values, rows between the old end and `first` are blank
WriteRows(rows, first, values, width) ==
    [i \in 1..Max(Len(rows), first + Len(values) - 1) |->
        IF i >= first /\ i < first + Len(values) THEN values[i - first + 1]
        ELSE IF i <= Len(rows) THEN rows[i]
        ELSE BlankRow(width)]

\* worksheet.col_values(1): column A down to its last non-empty cell
col_values(rows) ==
    LET filled == {i \in DOMAIN rows : rows[i][1] # <<>>}
    IN  [i \in 1..(IF filled = {} THEN 0 ELSE CHOOSE m \in filled : \A j \in filled : m >= j)
            |-> rows[i][1]]

\* l[1:]
Rest(l) == IF l = <<>> THEN <<>> ELSE Tail(l)

\* rate_limited_update(worksheet, values, range_name, skip_write=skip_write)
\* on w = [sheets, sink]
rate_limited_update(w, book, title, values, first, width, skip_write) ==
    IF skip_write THEN w
    ELSE [sheets |-> [w.sheets EXCEPT ![title] = WriteRows(@, first, values, width)],
          sink   |-> w.sink \o <<Op("update", book, title), Sleep>>]

\* load_designer_room_numbers: the loop over all_values[1:]
RECURSIVE LoadRooms(_, _, _)
LoadRooms(all_values, k, rooms) ==
    IF k > Len(all_values) THEN rooms
    ELSE LET row == all_values[k]
         IN  LoadRooms(all_values, k + 1,
                 IF Len(row) >= 2 /\ row[1] # <<>> /\ row[2] # <<>>
                 THEN (row[1] :> row[2]) @@ rooms
                 ELSE rooms)

load_designer_room_numbers(rooms, spreadsheet) ==
    IF "Designers" \in DOMAIN spreadsheet
    THEN LoadRooms(spreadsheet["Designers"], 2, rooms)
    ELSE rooms

(***************************************************************************)
(* save_preorder_data                                                      *)
(***************************************************************************)
Book1 == "GOOGLE_SHEET_URL"

\* every order_details['items'] entry of the customer histories, in the
\* order the loops over CUSTOMER_ORDERS visit them
HistoryItems(co) ==
    Flatten([i \in DOMAIN co |->
        Flatten([j \in DOMAIN co[i].orders |-> co[i].orders[j].items])])

\* lines 525-534
expected_totals(co) ==
    LET items == HistoryItems(co)
    IN  [item_name \in {items[i].name : i \in DOMAIN items} |->
            SumSeq([i \in DOMAIN items |->
                IF items[i].name = item_name THEN items[i].quantity ELSE 0])]

\* lines 565-569
room_num_sort(room_number) ==
    IF room_number = <<>> THEN -1
    ELSE IF ParseInt(room_number).ok THEN ParseInt(room_number).value
    ELSE -1

\* lines 562-577: the row of one reportable product
DataRow(item_data, rooms) ==
    LET designer == extract_designer_name(item_data.name)
    IN  <<designer, Get(rooms, designer, <<>>), extract_item_name(item_data.name),
          item_data.quantity, room_num_sort(Get(rooms, designer, <<>>))>>

\* The state of the loop over ITEM_QUANTITIES, acc, holds the resolver c, the
\* lookups made (calls), data, actual_totals and whether is_market_item has
\* raised.  Line 540: acc after get_catalog_item(item_id) has returned r.
Looked(acc, item_data, r) ==
    [acc EXCEPT !.c = r.c,
                !.calls = Append(@, [product |-> item_data.key, id |-> item_data.key,
                                     found |-> r.value # PyNone])]

\* lines 541-577 for a product whose catalog object was found, m being what
\* is_market_item(catalog_item) gave
Checked(item_data, rooms, acc, catalog_item, m) ==
    LET parent == Get(Get(catalog_item, "item_variation_data", <<>>), "item_id", "")
        asked == IF Get(catalog_item, "type", "") = "ITEM_VARIATION"
                 THEN Append(acc.calls, [product |-> item_data.key, id |-> parent,
                                         found |-> ~m.raised])
                 ELSE acc.calls
    IN  IF m.raised
        THEN [acc EXCEPT !.c = m.c, !.calls = asked, !.raised = TRUE]
        ELSE IF ~m.value
        THEN [acc EXCEPT !.c = m.c, !.calls = asked]
        ELSE [c |-> m.c, calls |-> asked,
              data |-> Append(acc.data, DataRow(item_data, rooms)),
              actual_totals |-> (item_data.name :> item_data.quantity) @@ acc.actual_totals,
              raised |-> FALSE]

\* line 541 on the result r of get_catalog_item
Resolved(item_data, rooms, acc, r) ==
    IF Falsy(r.value) THEN Looked(acc, item_data, r)
    ELSE Checked(item_data, rooms, Looked(acc, item_data, r), r.value,
                 is_market_item(r.value, r.c))

\* lines 540-577: one pass of the loop body
DataStep(item_data, rooms, acc) ==
    Resolved(item_data, rooms, acc, get_catalog_item(item_data.key, acc.c))

\* lines 539-577: the loop over ITEM_QUANTITIES from entry k on
RECURSIVE DataLoop(_, _, _, _)
DataLoop(iq, k, rooms, acc) ==
    IF k > Len(iq) \/ acc.raised THEN acc
    ELSE DataLoop(iq, k + 1, rooms, DataStep(iq[k], rooms, acc))

\* the sort key of line 580: (-x[4], x[2])
RowLess(x, y) == -x[5] < -y[5] \/ (x[5] = y[5] /\ StrLess(x[3], y[3]))

\* line 580
sort(data) ==
    StableSort(data, [i \in DOMAIN data, j \in DOMAIN data |-> RowLess(data[i], data[j])])

\* lines 583-590
final_data(data) ==
    Flatten([k \in DOMAIN data |->
        (IF k > 1 /\ data[k][2] # data[k - 1][2] THEN <<BlankRow(4)>> ELSE <<>>)
            \o <<SubSeq(data[k], 1, 4)>>])

PreOrderMarker == <<"p", "r", "e", "-", "o", "r", "d", "e", "r">>

\* a variant that validates the names of the expected map only
all_items_expected_only(expected, actual) ==
    {item \in DOMAIN expected : IsSubstring(PreOrderMarker, lower(item))}

\* lines 639-640
all_items(expected, actual) ==
    {item \in DOMAIN expected \cup DOMAIN actual : IsSubstring(PreOrderMarker, lower(item))}

\* lines 657-664: what is printed for every line item named `item`
OrdersContaining(co, item) ==
    Flatten([i \in DOMAIN co |->
        Flatten([j \in DOMAIN co[i].orders |->
            LET order == co[i].orders[j]
            IN  Flatten([k \in DOMAIN order.items |->
                    IF order.items[k].name = item
                    THEN <<[order_id |-> order.order_id, customer_name |-> co[i].key,
                            quantity |-> order.items[k].quantity, status |-> order.status,
                            created_at |-> order.created_at]>>
                    ELSE <<>>])])])

\* lines 635-670: what the validation prints
validate(expected, actual, co) ==
    LET items == sorted(all_items(expected, actual))
        differs(item) == Get(expected, item, 0) # Get(actual, item, 0)
        has_discrepancy == \E k \in DOMAIN items : differs(items[k])
    IN  <<Message("Pre-Order Quantity Validation:", <<>>)>> \o
        (IF items = <<>>
         THEN <<Message("No pre-order items found to validate", <<>>)>>
         ELSE Flatten([k \in DOMAIN items |->
                  IF differs(items[k])
                  THEN <<Message("Discrepancy found for:",
                                 [item |-> items[k],
                                  expected |-> Get(expected, items[k], 0),
                                  actual |-> Get(actual, items[k], 0),
                                  orders |-> OrdersContaining(co, items[k])])>>
                  ELSE <<>>])
              \o (IF has_discrepancy
                  THEN <<Message("Warning: Discrepancies found", <<>>)>>
                  ELSE <<Message("All pre-order quantities match expected totals!", <<>>)>>))

\* the cell A1 of the summary row (the time of the update is left out)
SummaryCell(not_fulfilled) ==
    <<"Order Summary: ", not_fulfilled, " orders processed | Sheet last updated">>

HeadersRow ==
    <<<<"D", "e", "s", "i", "g", "n", "e", "r">>,
      <<"R", "o", "o", "m", " ", "N", "u", "m", "b", "e", "r">>,
      <<"I", "t", "e", "m">>,
      <<"P", "r", "e", "-", "o", "r", "d", "e", "r", "e", "d">>>>

\* the preorders variable before and after save_preorder_data
NotCalled ==
    [called |-> FALSE, returned |-> FALSE, expected_totals |-> <<>>, actual_totals |-> <<>>,
     data |-> <<>>, final_data |-> <<>>]

\* spreadsheet.add_worksheet(title, ...) on w = [sheets, sink]
add_worksheet(w, title) ==
    [sheets |-> (title :> <<>>) @@ w.sheets,
     sink   |-> Append(w.sink, Op("add_worksheet", Book1, title))]

\* lines 505-523
FormatHeaders(w, skip_write) ==
    IF skip_write THEN w
    ELSE [w EXCEPT !.sink = @ \o <<Op("format", Book1, "Pre-Orders"), Sleep,
                                   Op("format", Book1, "Pre-Orders"), Sleep>>]

\* lines 482-523: the Pre-Orders worksheet is found or created, and the
\* summary and header rows are written
WriteHeaders(w, not_fulfilled, skip_write) ==
    FormatHeaders(
        rate_limited_update(
            IF "Pre-Orders" \in DOMAIN w.sheets THEN w ELSE add_worksheet(w, "Pre-Orders"),
            Book1, "Pre-Orders",
            <<<<SummaryCell(not_fulfilled), <<>>, <<>>, <<>>>>, HeadersRow>>,
            1, 4, skip_write),
        skip_write)

\* lines 594-596: worksheet.batch_clear(['A3:D1000'])
batch_clear(w, skip_write) ==
    IF skip_write THEN w
    ELSE [sheets |-> [w.sheets EXCEPT !["Pre-Orders"] =
                         SubSeq(@, 1, IF Len(@) < 2 THEN Len(@) ELSE 2)],
          sink |-> w.sink \o <<Op("batch_clear", Book1, "Pre-Orders"), Sleep>>]

\* lines 592-600
WriteData(w, final, skip_write) ==
    IF final = <<>> THEN w
    ELSE rate_limited_update(batch_clear(w, skip_write), Book1, "Pre-Orders", final, 3, 4,
                             skip_write)

\* lines 603-608
designers(data) == {data[k][1] : k \in DOMAIN data} \ {<<>>, UnknownDesigner}

\* lines 616-633 on the Designers worksheet of w; rank is the order in which
\* the set new_designers is iterated
AddDesigners(w, found, rank, skip_write) ==
    LET existing_designers == Rest(col_values(w.sheets["Designers"]))
        new_designers == found \ {existing_designers[i] : i \in DOMAIN existing_designers}
        iterated == SelectSeq(rank, LAMBDA designer : designer \in new_designers)
    IN  IF new_designers = {} THEN w
        ELSE rate_limited_update(w, Book1, "Designers",
                                 [i \in DOMAIN iterated |-> <<iterated[i], <<>>, <<>>>>],
                                 Len(existing_designers) + 2, 3, skip_write)

\* lines 602-633
UpdateDesigners(w, data, rank, skip_write) ==
    AddDesigners(IF "Designers" \in DOMAIN w.sheets THEN w ELSE add_worksheet(w, "Designers"),
                 designers(data), rank, skip_write)

\* lines 582-676 on the sorted data: the rows are written, the Designers
\* sheet is updated, the totals are validated, and True is returned
AfterSort(st, skip_write, rank, rooms, w, loop, data) ==
    LET final == final_data(data)
        w6 == UpdateDesigners(WriteData(w, final, skip_write), data, rank, skip_write)
    IN  [rooms |-> rooms, sheets |-> w6.sheets, sink |-> w6.sink,
         printed |-> st.printed
                        \o validate(expected_totals(st.co), loop.actual_totals, st.co),
         cache |-> loop.c.cache, fetches |-> loop.c.fetches, calls |-> loop.calls,
         preorders |-> [called |-> TRUE, returned |-> TRUE,
                        expected_totals |-> expected_totals(st.co),
                        actual_totals |-> loop.actual_totals, data |-> data,
                        final_data |-> final]]

\* Lines 579-676 on the outcome of the data loop.  When is_market_item has
\* raised, the except clause of line 672 ends the call: the header rows are
\* written, and nothing after them.
AfterDataLoop(st, skip_write, rank, rooms, w, loop) ==
    IF loop.raised
    THEN [rooms |-> rooms, sheets |-> w.sheets, sink |-> w.sink,
          printed |-> Append(st.printed, Message("Error saving to Google Sheets", <<>>)),
          cache |-> loop.c.cache, fetches |-> loop.c.fetches, calls |-> loop.calls,
          preorders |-> [called |-> TRUE, returned |-> FALSE,
                         expected_totals |-> expected_totals(st.co),
                         actual_totals |-> loop.actual_totals, data |-> loop.data,
                         final_data |-> <<>>]]
    ELSE AfterSort(st, skip_write, rank, rooms, w, loop, sort(loop.data))

\* save_preorder_data(sheets_client, skip_write) on the globals and the sink
\* st; failing: the catalog requests of the call that fail; rank: the order
\* in which the set new_designers is iterated.
save_preorder_data(st, skip_write, failing, rank) ==
    IF "Pre-Orders" \notin DOMAIN st.sheets /\ skip_write
    THEN [rooms |-> load_designer_room_numbers(st.rooms, st.sheets),
          sheets |-> st.sheets, sink |-> st.sink,
          printed |-> Append(st.printed, Message("Would create Pre-Orders worksheet", <<>>)),
          cache |-> st.cache, fetches |-> st.fetches, calls |-> st.calls,
          preorders |-> [NotCalled EXCEPT !.called = TRUE, !.returned = TRUE]]
    ELSE AfterDataLoop(st, skip_write, rank,
             load_designer_room_numbers(st.rooms, st.sheets),
             WriteHeaders([sheets |-> st.sheets, sink |-> st.sink],
                          st.counts["NOT_FULFILLED"], skip_write),
             DataLoop(st.iq, 1, load_designer_room_numbers(st.rooms, st.sheets),
                 [c |-> [cache |-> st.cache, fetches |-> st.fetches, n |-> 0,
                         failing |-> failing],
                  calls |-> st.calls, data |-> <<>>, actual_totals |-> <<>>,
                  raised |-> FALSE]))

\* the orders in which a set can be iterated
Orderings(S) ==
    {f \in [1..Cardinality(S) -> S] : \A i, j \in 1..Cardinality(S) : f[i] = f[j] => i = j}

\* a variant in which a discrepancy ends the run before the customer report
SavePreorderDataBlocking(failing, rank) ==
    /\ pc = "save_preorder_data"
    /\ \E r \in {save_preorder_data(
                    [rooms |-> DESIGNER_ROOM_NUMBERS, sheets |-> sheets, sink |-> sink,
                     printed |-> printed, cache |-> CATALOG_ITEMS_CACHE, fetches |-> fetches,
                     calls |-> calls, iq |-> ITEM_QUANTITIES, co |-> CUSTOMER_ORDERS,
                     counts |-> ORDER_STATUS_COUNTS],
                    args.skip_preorders, failing, rank)} :
           /\ DESIGNER_ROOM_NUMBERS' = r.rooms
           /\ sheets' = r.sheets
           /\ sink' = r.sink
           /\ printed' = r.printed
           /\ CATALOG_ITEMS_CACHE' = r.cache
           /\ fetches' = r.fetches
           /\ calls' = r.calls
           /\ preorders' = r.preorders
    /\ pc' = IF \E i \in DOMAIN printed' : printed'[i].msg = "Warning: Discrepancies found"
             THEN "exit" ELSE "save_customer_orders"
    /\ UNCHANGED <<orderVars, cacheFile, catalog, args, customer_sheets, customers, runVars>>

\* main(), line 944
SavePreorderData(failing, rank) ==
    /\ pc = "save_preorder_data"
    /\ \E r \in {save_preorder_data(
                    [rooms |-> DESIGNER_ROOM_NUMBERS, sheets |-> sheets, sink |-> sink,
                     printed |-> printed, cache |-> CATALOG_ITEMS_CACHE, fetches |-> fetches,
                     calls |-> calls, iq |-> ITEM_QUANTITIES, co |-> CUSTOMER_ORDERS,
                     counts |-> ORDER_STATUS_COUNTS],
                    args.skip_preorders, failing, rank)} :
           /\ DESIGNER_ROOM_NUMBERS' = r.rooms
           /\ sheets' = r.sheets
           /\ sink' = r.sink
           /\ printed' = r.printed
           /\ CATALOG_ITEMS_CACHE' = r.cache
           /\ fetches' = r.fetches
           /\ calls' = r.calls
           /\ preorders' = r.preorders
    /\ pc' = "save_customer_orders"
    /\ UNCHANGED <<orderVars, cacheFile, catalog, args, customer_sheets, customers, runVars>>

(***************************************************************************)
(* save_customer_orders                                                    *)
(*                                                                         *)
(* The second spreadsheet is a list of worksheets [key, rows] in index     *)
(* order.  The sink refuses to delete the last worksheet of a spreadsheet  *)
(* and to add a worksheet under a title that exists.                       *)
(***************************************************************************)
Book2 == "SECOND_SHEET_URL"

SummaryTitle == <<"!", "S", "u", "m", "m", "a", "r", "y">>

RemoveKey(d, k) == SelectSeq(d, LAMBDA e : e.key # k)

\* Lines 728-732: the loop over the worksheets from the k-th on.  w holds the
\* worksheets, the sink log and whether del_worksheet has raised.
RECURSIVE DeleteLoop(_, _, _)
DeleteLoop(worksheets, k, w) ==
    IF k > Len(worksheets) \/ w.raised THEN w
    ELSE LET title == worksheets[k].key
             sent == Append(w.sink, Op("del_worksheet", Book2, title))
         IN  IF title = SummaryTitle THEN DeleteLoop(worksheets, k + 1, w)
             ELSE IF Len(w.sheets) = 1
             THEN [w EXCEPT !.sink = sent, !.raised = TRUE]
             ELSE DeleteLoop(worksheets, k + 1,
                      [sheets |-> RemoveKey(w.sheets, title), sink |-> Append(sent, Sleep),
                       raised |-> FALSE])

\* lines 758-776: the loop over customer_names[i+1:] from the j-th name on
RECURSIVE MergeInner(_, _, _, _)
MergeInner(customer_names, i, j, merged) ==
    IF j > Len(customer_names) THEN merged
    ELSE LET name1 == customer_names[i]
             name2 == customer_names[j]
             canonical_name == IF Len(name1) >= Len(name2) THEN name1 ELSE name2
             m1 == IF HasKey(merged, canonical_name) THEN merged
                   ELSE Append(merged, [key |-> canonical_name, names |-> <<>>])
             at == KeyIndex(m1, canonical_name)
             has(m, name) == \E n \in DOMAIN m[at].names : m[at].names[n] = name
             m2 == IF has(m1, name1) THEN m1 ELSE [m1 EXCEPT ![at].names = Append(@, name1)]
             m3 == IF has(m2, name2) THEN m2 ELSE [m2 EXCEPT ![at].names = Append(@, name2)]
         IN  IF HasKey(merged, name2) THEN MergeInner(customer_names, i, j + 1, merged)
             ELSE IF IsSubstring(name1, name2) \/ IsSubstring(name2, name1)
             THEN MergeInner(customer_names, i, j + 1, m3)
             ELSE MergeInner(customer_names, i, j + 1, merged)

\* lines 754-776: the first pass from the i-th name on
RECURSIVE MergeOuter(_, _, _)
MergeOuter(customer_names, i, merged) ==
    IF i > Len(customer_names) THEN merged
    ELSE IF HasKey(merged, customer_names[i]) THEN MergeOuter(customer_names, i + 1, merged)
    ELSE MergeOuter(customer_names, i + 1, MergeInner(customer_names, i, i + 1, merged))

\* lines 750-776: the dict merged_customers, canonical name -> names
merged_customers(co) == MergeOuter([i \in DOMAIN co |-> co[i].key], 1, <<>>)

\* a variant whose line 792 assigns the orders where the code extends the list
RECURSIVE SecondPassAssigning(_, _, _, _)
SecondPassAssigning(co, k, merged, st) ==
    IF k > Len(co) THEN st
    ELSE LET customer_name == co[k].key
             its_orders == st.co[k].orders
             lists == {c \in DOMAIN merged :
                          \E n \in DOMAIN merged[c].names : merged[c].names[n] = customer_name}
             merged_into == IF lists = {} THEN <<>>
                            ELSE merged[CHOOSE c \in lists : \A d \in lists : c <= d].key
             m1 == IF HasKey(st.merged_orders, merged_into) THEN st.merged_orders
                   ELSE Append(st.merged_orders, [key |-> merged_into, orders |-> <<>>])
         IN  SecondPassAssigning(co, k + 1, merged,
                 IF merged_into # <<>>
                 THEN [merged_orders |->
                           [m1 EXCEPT ![KeyIndex(m1, merged_into)].orders = its_orders],
                       shared |-> st.shared,
                       co |-> IF merged_into \in st.shared
                              THEN [st.co EXCEPT
                                       ![KeyIndex(st.co, merged_into)].orders = its_orders]
                              ELSE st.co]
                 ELSE [merged_orders |->
                           IF HasKey(st.merged_orders, customer_name)
                           THEN [st.merged_orders EXCEPT
                                    ![KeyIndex(st.merged_orders, customer_name)].orders = its_orders]
                           ELSE Append(st.merged_orders,
                                       [key |-> customer_name, orders |-> its_orders]),
                       shared |-> st.shared \cup {customer_name},
                       co |-> st.co])

\* lines 780-795: the second pass from the k-th customer on.  st holds the
\* dict merged_orders, the keys of merged_orders whose value is the list
\* object of CUSTOMER_ORDERS (line 795 assigns the list, it does not copy
\* it), and CUSTOMER_ORDERS with the lists as they are by now: extend() on
\* a shared list (line 792) changes the list of CUSTOMER_ORDERS too.
RECURSIVE SecondPass(_, _, _, _)
SecondPass(co, k, merged, st) ==
    IF k > Len(co) THEN st
    ELSE LET customer_name == co[k].key
             its_orders == st.co[k].orders
             lists == {c \in DOMAIN merged :
                          \E n \in DOMAIN merged[c].names : merged[c].names[n] = customer_name}
             merged_into == IF lists = {} THEN <<>>
                            ELSE merged[CHOOSE c \in lists : \A d \in lists : c <= d].key
             m1 == IF HasKey(st.merged_orders, merged_into) THEN st.merged_orders
                   ELSE Append(st.merged_orders, [key |-> merged_into, orders |-> <<>>])
         IN  SecondPass(co, k + 1, merged,
                 IF merged_into # <<>>
                 THEN [merged_orders |->
                           [m1 EXCEPT ![KeyIndex(m1, merged_into)].orders = @ \o its_orders],
                       shared |-> st.shared,
                       co |-> IF merged_into \in st.shared
                              THEN [st.co EXCEPT
                                       ![KeyIndex(st.co, merged_into)].orders = @ \o its_orders]
                              ELSE st.co]
                 ELSE [merged_orders |->
                           IF HasKey(st.merged_orders, customer_name)
                           THEN [st.merged_orders EXCEPT
                                    ![KeyIndex(st.merged_orders, customer_name)].orders = its_orders]
                           ELSE Append(st.merged_orders,
                                       [key |-> customer_name, orders |-> its_orders]),
                       shared |-> st.shared \cup {customer_name},
                       co |-> st.co])

\* line 779: merged_orders = {}
BeforeSecondPass(co) == [merged_orders |-> <<>>, shared |-> {}, co |-> co]

\* ''.join(c for c in customer_name if c.isalnum() or c.isspace())[:31]
safe_name(customer_name) ==
    LET kept == SelectSeq(customer_name, LAMBDA c : isalnum(c) \/ isspace(c))
    IN  SubSeq(kept, 1, IF Len(kept) < 31 THEN Len(kept) ELSE 31)

CustomerHeaders ==
    <<<<"P", "r", "e", "-", "O", "r", "d", "e", "r">>,
      <<"D", "e", "s", "i", "g", "n", "e", "r">>,
      <<"I", "t", "e", "m", " ", "N", "a", "m", "e">>,
      <<"Q", "u", "a", "n", "t", "i", "t", "y">>>>

SummaryHeaders ==
    <<<<"C", "u", "s", "t", "o", "m", "e", "r", " ", "N", "a", "m", "e">>,
      <<"O", "r", "d", "e", "r", " ", "C", "o", "u", "n", "t">>,
      <<"L", "i", "n", "k", " ", "t", "o", " ", "D", "e", "t", "a", "i", "l", "s">>>>

\* rate_limited_update on a worksheet of the second spreadsheet
UpdateSheet2(w, title, values, first, width) ==
    [w EXCEPT !.sheets[KeyIndex(w.sheets, title)].rows = WriteRows(@, first, values, width),
              !.sink = @ \o <<Op("update", Book2, title), Sleep>>]

\* format_customer_worksheet
format_customer_worksheet(w, title, customer_name) ==
    LET w1 == [w EXCEPT !.sink = Append(@, Op("merge_cells", Book2, title))]
        w2 == UpdateSheet2(w1, title, <<<<customer_name, <<>>, <<>>, <<>>>>>>, 1, 4)
        w3 == [w2 EXCEPT !.sink = @ \o <<Op("format", Book2, title), Sleep>>]
        w4 == UpdateSheet2(w3, title, <<CustomerHeaders>>, 3, 4)
    IN  [w4 EXCEPT !.sink = @ \o <<Op("format", Book2, title), Sleep>>]

\* lines 827-845: the rows of one customer
CustomerData(orders_) ==
    Flatten([j \in DOMAIN orders_ |->
        [k \in DOMAIN orders_[j].items |->
            process_item_details(orders_[j].items[k].name)
                \o <<orders_[j].items[k].quantity>>]])

\* lines 810-820: the worksheet is created and its summary row prepared
AddSheet(w, customer_name, title, order_count) ==
    [w EXCEPT !.sheets = Append(@, [key |-> title, rows |-> <<>>]),
              !.sink = @ \o <<Op("add_worksheet", Book2, title), Sleep>>,
              !.summary_data = Append(@, <<customer_name, order_count,
                                           <<"=HYPERLINK", title>>>>)]

\* lines 847-851
FillSheet(w, title, data) ==
    IF data = <<>> THEN w
    ELSE [UpdateSheet2(w, title, data, 4, 4) EXCEPT
             !.sink = @ \o <<Op("columns_auto_resize", Book2, title), Sleep>>]

\* lines 806-857 for one customer when skip_write is false; add_worksheet
\* raises when the title exists
CustomerSheet(w, customer_name, title, orders_, data) ==
    IF HasKey(w.sheets, title)
    THEN [w EXCEPT !.sink = Append(@, Op("add_worksheet", Book2, title)),
                   !.printed = Append(@, Message("Error processing worksheet for",
                                                 customer_name))]
    ELSE FillSheet(
             format_customer_worksheet(AddSheet(w, customer_name, title, Len(orders_)),
                                       title, customer_name),
             title, data)

\* Lines 803-857: the loop over sorted(merged_orders.items()) from the k-th
\* entry on; w holds the worksheets, the sink log, summary_data and printed.
RECURSIVE CustomerLoop(_, _, _, _)
CustomerLoop(entries, k, skip_write, w) ==
    IF k > Len(entries) THEN w
    ELSE CustomerLoop(entries, k + 1, skip_write,
             IF skip_write THEN w
             ELSE CustomerSheet(w, entries[k].key, safe_name(entries[k].key),
                                entries[k].orders, CustomerData(entries[k].orders)))

\* lines 727-734 on what DeleteLoop left
Deleted(said, w) ==
    [sheets |-> w.sheets, sink |-> w.sink, summary_data |-> <<>>,
     printed |-> IF w.raised
                 THEN Append(said, Message("Error deleting existing sheets", <<>>))
                 ELSE said]

\* lines 725-734
DeleteSheets(st, skip_write) ==
    IF skip_write
    THEN [sheets |-> st.sheets, sink |-> st.sink, summary_data |-> <<>>,
          printed |-> st.printed]
    ELSE Deleted(st.printed,
                 DeleteLoop(st.sheets, 1,
                            [sheets |-> st.sheets, sink |-> st.sink, raised |-> FALSE]))

\* lines 736-747
SetUpSummary(w, skip_write) ==
    IF skip_write THEN w
    ELSE IF HasKey(w.sheets, SummaryTitle)
    THEN [w EXCEPT !.sheets[KeyIndex(w.sheets, SummaryTitle)].rows = <<>>,
                   !.sink = @ \o <<Op("clear", Book2, SummaryTitle), Sleep>>]
    ELSE [w EXCEPT !.sheets = Append(@, [key |-> SummaryTitle, rows |-> <<>>]),
                   !.sink = @ \o <<Op("add_worksheet", Book2, SummaryTitle), Sleep>>]

\* a variant whose second pass merges nobody
merged_orders_unmerged(co) == SecondPass(co, 1, <<>>, BeforeSecondPass(co)).merged_orders

\* lines 778-795: the dict merged_orders
merged_orders(co) == SecondPass(co, 1, merged_customers(co), BeforeSecondPass(co)).merged_orders

\* lines 778-795: CUSTOMER_ORDERS after the second pass
customer_orders(co) == SecondPass(co, 1, merged_customers(co), BeforeSecondPass(co)).co

\* sorted(merged_orders.items()), line 803
sorted_items(items) ==
    StableSort(items, [i \in DOMAIN items, j \in DOMAIN items |->
                          StrLess(items[i].key, items[j].key)])

\* lines 862-870
WriteSummaryHeaders(w) ==
    [UpdateSheet2(w, SummaryTitle, <<SummaryHeaders>>, 1, 3) EXCEPT
        !.sink = @ \o <<Op("format", Book2, SummaryTitle), Sleep>>]

\* lines 872-878
WriteSummaryData(w) ==
    [(IF w.summary_data = <<>> THEN w
      ELSE UpdateSheet2(w, SummaryTitle, w.summary_data, 2, 3)) EXCEPT
        !.sink = @ \o <<Op("columns_auto_resize", Book2, SummaryTitle), Sleep>>]

\* lines 859-883
UpdateSummary(w, skip_write) ==
    IF skip_write THEN w ELSE WriteSummaryData(WriteSummaryHeaders(w))

\* line 889: what save_customer_orders leaves when it returns True
Returned(co, done) ==
    [sheets |-> done.sheets, sink |-> done.sink, printed |-> done.printed,
     co |-> customer_orders(co),
     customers |-> [called |-> TRUE, returned |-> TRUE,
                    merged_customers |-> merged_customers(co),
                    merged_orders |-> merged_orders(co),
                    summary_data |-> done.summary_data]]

\* save_customer_orders(sheets_client, skip_write) on st = [sheets, sink,
\* printed, co]
save_customer_orders(st, skip_write) ==
    Returned(st.co,
        UpdateSummary(
            CustomerLoop(sorted_items(merged_orders(st.co)), 1, skip_write,
                         SetUpSummary(DeleteSheets(st, skip_write), skip_write)),
            skip_write))

\* main(), line 945
SaveCustomerOrders ==
    /\ pc = "save_customer_orders"
    /\ \E r \in {save_customer_orders(
                    [sheets |-> customer_sheets, sink |-> sink, printed |-> printed,
                     co |-> CUSTOMER_ORDERS],
                    args.skip_customer_orders)} :
           /\ customer_sheets' = r.sheets
           /\ sink' = r.sink
           /\ printed' = r.printed
           /\ customers' = r.customers
           /\ CUSTOMER_ORDERS' = r.co
    /\ pc' = "exit"
    /\ exit_code' = <<0>>
    /\ UNCHANGED <<orders, idx, results, ORDER_STATUS_COUNTS, ITEM_QUANTITIES, catalogVars,
                   args, DESIGNER_ROOM_NUMBERS, sheets, preorders, environ, network>>

\* save_catalog_cache, registered with atexit
SaveCatalogCache ==
    /\ pc = "exit"
    /\ cacheFile' = CATALOG_ITEMS_CACHE
    /\ pc' = "done"
    /\ UNCHANGED <<orderVars, CATALOG_ITEMS_CACHE, catalog, fetches, calls, reportVars, runVars>>

(***************************************************************************)
(* The start of a run                                                      *)
(*                                                                         *)
(* `environ` holds what the run is given: the variables of .env (None when *)
(* unset), whether .creds holds a service-account file, and the            *)
(* --start-date of the command line (None when the option is absent).  A   *)
(* response of the order API is [ok, body], body a JSON object; an order   *)
(* that is not a JSON object is PyNone.  The interpreter runs the exit     *)
(* hooks at pc = "exit"; main() registers save_catalog_cache as one.       *)
(***************************************************************************)
ValidDate == "2025-03-01"

SearchRequest == "POST /orders/search"

\* a variant that leaves the interpreter without running the exit hooks
os_exit(msg, code) ==
    /\ printed' = Append(printed, Message(msg, <<>>))
    /\ exit_code' = <<code>>
    /\ pc' = "done"

\* print(msg); sys.exit(code) once save_catalog_cache is registered
sys_exit(msg, code) ==
    /\ printed' = Append(printed, Message(msg, <<>>))
    /\ exit_code' = <<code>>
    /\ pc' = "exit"

\* Lines 14-22 and 49, run when the module is loaded: without SQUARE_API_KEY
\* the interpreter exits before main(); MARKET_CATEGORY_ID is read and not
\* looked at.
Import ==
    /\ pc = "import"
    /\ IF ~Truthy(environ.SQUARE_API_KEY)
       THEN /\ printed' = Append(printed,
                    Message("Error: SQUARE_API_KEY environment variable is not set", <<>>))
            /\ exit_code' = <<1>>
            /\ pc' = "done"
       ELSE /\ pc' = "main"
            /\ UNCHANGED <<printed, exit_code>>
    /\ UNCHANGED <<orderVars, catalogVars, args, DESIGNER_ROOM_NUMBERS, sheets, customer_sheets,
                   sink, preorders, customers, environ, network>>

\* catalog_cache.json when the file does not exist
NoFile == [exists |-> FALSE]

\* load_catalog_cache on what the file holds
load_catalog_cache(file) == IF file = NoFile THEN <<>> ELSE file

\* Lines 913-916: load_catalog_cache, atexit.register(save_catalog_cache)
Main ==
    /\ pc = "main"
    /\ CATALOG_ITEMS_CACHE' = load_catalog_cache(cacheFile)
    /\ pc' = "parse_args"
    /\ UNCHANGED <<orderVars, cacheFile, catalog, fetches, calls, reportVars, runVars>>

\* parse_args: argparse exits with status 2 without --start-date, line 137
\* with status 1 on a date strptime rejects
ParseArgs ==
    /\ pc = "parse_args"
    /\ IF environ.start_date = None
       THEN sys_exit("the following arguments are required: --start-date", 2)
       ELSE IF environ.start_date # ValidDate
       THEN sys_exit("Error: Date must be in YYYY-MM-DD format", 1)
       ELSE /\ pc' = "setup_google_sheets"
            /\ UNCHANGED <<printed, exit_code>>
    /\ UNCHANGED <<orderVars, catalogVars, args, DESIGNER_ROOM_NUMBERS, sheets, customer_sheets,
                   sink, preorders, customers, environ, network>>

\* setup_google_sheets: the credential file is looked for first (line 79),
\* GOOGLE_SHEET_URL after the client is made (line 94); both failures end
\* at the sys.exit(1) of line 105
SetupGoogleSheets ==
    /\ pc = "setup_google_sheets"
    /\ IF ~environ.credentials THEN sys_exit("File not found error", 1)
       ELSE IF ~Truthy(environ.GOOGLE_SHEET_URL) THEN sys_exit("Value error", 1)
       ELSE /\ pc' = "search_orders"
            /\ UNCHANGED <<printed, exit_code>>
    /\ UNCHANGED <<orderVars, catalogVars, args, DESIGNER_ROOM_NUMBERS, sheets, customer_sheets,
                   sink, preorders, customers, environ, network>>

\* `[Order(order_data) for order_data in orders_response['orders']]` raises
\* on an order without .get
Malformed(body) == \E i \in DOMAIN body.orders : body.orders[i] = PyNone

\* a variant that reports a failed request and goes on without orders
SearchOrdersCarryingOn(response) ==
    /\ pc = "search_orders"
    /\ network' = Append(network, SearchRequest)
    /\ printed' = IF response.ok THEN printed
                  ELSE Append(printed, Message("Error making request to Square API", <<>>))
    /\ pc' = "save_preorder_data"
    /\ UNCHANGED <<orderVars, catalogVars, args, DESIGNER_ROOM_NUMBERS, sheets, customer_sheets,
                   sink, preorders, customers, environ, exit_code>>

\* Lines 921-954 up to the loop over the orders: the request of
\* search_orders and what main() does with its response
SearchOrders(response) ==
    /\ pc = "search_orders"
    /\ network' = Append(network, SearchRequest)
    /\ IF ~response.ok
       THEN sys_exit("Error making request to Square API", 1) /\ UNCHANGED orders
       ELSE IF "orders" \notin DOMAIN response.body
       THEN sys_exit("No orders found", 0) /\ UNCHANGED orders
       ELSE IF Malformed(response.body)
       THEN sys_exit("An unexpected error occurred", 1) /\ UNCHANGED orders
       ELSE /\ orders' = response.body.orders
            /\ pc' = IF orders' = <<>> THEN "save_preorder_data" ELSE "orders"
            /\ UNCHANGED <<printed, exit_code>>
    /\ UNCHANGED <<idx, results, ORDER_STATUS_COUNTS, ITEM_QUANTITIES, CUSTOMER_ORDERS,
                   catalogVars, args, DESIGNER_ROOM_NUMBERS, sheets, customer_sheets, sink,
                   preorders, customers, environ>>

(***************************************************************************)
(* Inputs                                                                  *)
(***************************************************************************)
Jane == <<"J", "a", "n", "e">>
JaneDoe == Jane \o <<" ", "D", "o", "e">>
Widget == <<"W", "i", "d", "g", "e", "t">>
Large == <<"L", "a", "r", "g", "e">>
GiftCard == <<"G", "i", "f", "t">>

DeniedId == "WSFVqjYiFrqhAhemUkibkGP5YvBZY"
OrderIds == <<"ORDER-1", "ORDER-2", "ORDER-3", "ORDER-4", "ORDER-5", "ORDER-6">>

Pickup(state, name) ==
    [state |-> state, pickup_details |-> [recipient |-> [display_name |-> name]]]

Shipment(state, name) ==
    [state |-> state, shipment_details |-> [recipient |-> [display_name |-> name]]]

LineItem(id, name, variation, quantity) ==
    [catalog_object_id |-> id, name |-> name, variation_name |-> variation,
     quantity |-> quantity]

\* a line item without catalog_object_id (a custom amount)
CustomItem(name, quantity) == [name |-> name, quantity |-> quantity]

MkOrder(id, state, amount, fulfillments, line_items) ==
    [id |-> id, created_at |-> "2025-03-01T10:00:00Z", state |-> state,
     net_amount_due_money |-> [amount |-> amount],
     fulfillments |-> fulfillments, line_items |-> line_items]

\* The orders of one response carry distinct ids: the i-th gets OrderIds[i],
\* unless it carries a deny-listed id.
WithIds(l) ==
    [i \in DOMAIN l |->
        IF l[i].id \in DO_NOT_PROCESS_ORDER_IDS THEN l[i]
        ELSE [l[i] EXCEPT !.id = OrderIds[i]]]

ZeroCounts == [s \in Statuses |-> 0]

\* the customers variable before save_customer_orders
CustomersNotCalled ==
    [called |-> FALSE, returned |-> FALSE, merged_customers |-> <<>>, merged_orders |-> <<>>,
     summary_data |-> <<>>]

\* a run without skip flags on two spreadsheets without worksheets
ReportIdle ==
    /\ args = [skip_preorders |-> FALSE, skip_customer_orders |-> FALSE]
    /\ DESIGNER_ROOM_NUMBERS = <<>>
    /\ sheets = <<>>
    /\ customer_sheets = <<>>
    /\ sink = <<>>
    /\ printed = <<>>
    /\ preorders = NotCalled
    /\ customers = CustomersNotCalled

\* the values a run needs, all given
Complete ==
    [SQUARE_API_KEY |-> "sq0-key", MARKET_CATEGORY_ID |-> MarketCategory,
     GOOGLE_SHEET_URL |-> Book1, credentials |-> TRUE, start_date |-> ValidDate]

\* the globals when main() has received the orders
InitGlobals ==
    /\ pc = IF orders = <<>> THEN "save_preorder_data" ELSE "orders"
    /\ idx = 0
    /\ results = <<>>
    /\ ORDER_STATUS_COUNTS = ZeroCounts
    /\ ITEM_QUANTITIES = <<>>
    /\ CUSTOMER_ORDERS = <<>>
    /\ environ = Complete
    /\ network = <<SearchRequest>>
    /\ exit_code = <<>>

(***************************************************************************)
(* SpecClassify: main() runs process_order over a response whose orders    *)
(* take every combination of deny-listing, lifecycle state, amount due,    *)
(* fulfillment state and recipient.                                        *)
(***************************************************************************)
MaxClassifyOrders == 1

ClassifyItems ==
    <<LineItem("VAR-1", Widget, Large, <<"2">>), CustomItem(GiftCard, <<"1", ".", "5">>),
      LineItem("VAR-1", Widget, Large, <<"1">>)>>

ClassifyFulfillments ==
    {<<>>} \cup {<<Pickup(s, n)>> : s \in {"PROPOSED", "COMPLETED", "PICKED_UP"},
                                  n \in {COMPLETED_ORDER_NAME, Jane}}

ClassifyOrders ==
    {MkOrder(id, state, amount, f, ClassifyItems) :
        id \in {"", DeniedId}, state \in {"OPEN", "DRAFT", "CANCELED"},
        amount \in {0, 500}, f \in ClassifyFulfillments}

InitClassify ==
    /\ orders \in {WithIds(l) : l \in SeqsUpTo(ClassifyOrders, MaxClassifyOrders)}
    /\ InitGlobals
    /\ CatalogIdle
    /\ ReportIdle

NextClassify == ProcessOrder

SpecClassify == InitClassify /\ [][NextClassify]_vars

(***************************************************************************)
(* SpecAggregate: main() runs process_order over a response whose orders   *)
(* differ in their line items: quantities with a fraction, a line item     *)
(* without catalog id or without quantity, a quantity float() rejects,     *)
(* after line items with and without catalog id.                           *)
(***************************************************************************)
MaxAggOrders == 3

Pin == <<"P", "i", "n">>

AggItems ==
    {<<LineItem("VAR-1", Widget, Large, <<"2">>)>>,
     <<LineItem("VAR-1", Widget, Large, <<"1", ".", "9">>), LineItem("VAR-2", Pin, <<>>, <<"1">>)>>,
     <<LineItem("VAR-2", Pin, <<>>, <<"3">>), CustomItem(GiftCard, <<"4">>),
       [catalog_object_id |-> "VAR-1", name |-> Widget, variation_name |-> Large]>>,
     <<LineItem("VAR-1", Widget, Large, <<"1">>), LineItem("VAR-2", Pin, <<>>, <<"a", "b", "c">>),
       LineItem("VAR-1", Widget, Large, <<"2">>)>>,
     <<CustomItem(GiftCard, <<"2">>), LineItem("VAR-2", Pin, <<>>, <<"x">>)>>}

AggOrders ==
    {MkOrder("", "OPEN", amount, <<Pickup("PROPOSED", Jane)>>, items) :
        amount \in {0, 500}, items \in AggItems}

InitAggregate ==
    /\ orders \in {WithIds(l) : l \in SeqsUpTo(AggOrders, MaxAggOrders)}
    /\ InitGlobals
    /\ CatalogIdle
    /\ ReportIdle

NextAggregate == ProcessOrder

SpecAggregate == InitAggregate /\ [][NextAggregate]_vars

(***************************************************************************)
(* SpecCatalog: get_catalog_item is called for one id after another, in a  *)
(* run that starts with the cache file empty or holding a variation with a *)
(* stale parent_item and its parent.                                       *)
(***************************************************************************)
MaxResolves == 3
MaxFailingOrdinal == 2

RemoteCatalog ==
    [id \in {"VAR-1", "VAR-2", "VAR-3", "VAR-4", "ITEM-1", "ITEM-2"} |->
        CASE id = "VAR-1" -> Variation("ITEM-1")
          [] id = "VAR-2" -> Variation("ITEM-2")
          [] id = "VAR-3" -> Variation("ITEM-9")
          [] id = "VAR-4" -> Variation("ITEM-1")
          [] id = "ITEM-1" -> Item(<<"OTHER", MarketCategory>>)
          [] id = "ITEM-2" -> Item(<<"OTHER">>)]

CacheFiles ==
    {<<>>,
     [id \in {"VAR-1", "ITEM-1"} |->
        IF id = "VAR-1"
        THEN [type |-> "ITEM_VARIATION", item_variation_data |-> [item_id |-> "ITEM-1"],
              parent_item |-> Item(<<"OLD">>)]
        ELSE Item(<<MarketCategory>>)]}

FailingSets == SUBSET (1..MaxFailingOrdinal)

\* the caller's get_catalog_item(item_id)
Resolve(item_id, failing) ==
    /\ pc = "save_preorder_data"
    /\ Len(calls) < MaxResolves
    /\ \E r \in {get_catalog_item(item_id, Resolver(failing))} :
           /\ CATALOG_ITEMS_CACHE' = r.c.cache
           /\ fetches' = r.c.fetches
           /\ calls' = Append(calls, [product |-> item_id, id |-> item_id,
                                      found |-> r.value # PyNone])
    /\ UNCHANGED <<pc, orderVars, cacheFile, catalog, reportVars, runVars>>

InitCatalog ==
    /\ orders = <<>>
    /\ InitGlobals
    /\ ReportIdle
    /\ catalog = RemoteCatalog
    /\ cacheFile \in CacheFiles
    /\ CATALOG_ITEMS_CACHE = cacheFile
    /\ fetches = <<>>
    /\ calls = <<>>

NextCatalog ==
    \E item_id \in DOMAIN RemoteCatalog \cup {"ITEM-9"}, failing \in FailingSets :
        Resolve(item_id, failing)

SpecCatalog == InitCatalog /\ [][NextCatalog]_vars

(***************************************************************************)
(* SpecReport: main() processes a response and writes the product summary: *)
(* orders whose line items name market and other products, a product whose *)
(* parent item the catalog does not hold, one name under two variations,   *)
(* a quantity float() rejects; with and without --skip-preorders, on a     *)
(* spreadsheet with and without the Pre-Orders and Designers worksheets,   *)
(* from an empty cache file.                                               *)
(***************************************************************************)
MaxReportOrders == 2

Ann == <<"A", "n", "n">>
Bo == <<"B", "o">>
Fob == PreOrderPrefix \o <<"F", "o", "b">> \o By \o Ann
Kit == PreOrderPrefix \o <<"K", "i", "t">> \o By \o Bo
Hoop == <<"H", "o", "o", "p">> \o By \o Bo

ReportItems ==
    {<<LineItem("VAR-1", Fob, Regular, <<"2">>)>>,
     <<LineItem("VAR-1", Fob, Large, <<"1">>), LineItem("VAR-4", Hoop, Regular, <<"3">>)>>,
     <<LineItem("VAR-2", Kit, Regular, <<"1">>)>>,
     <<LineItem("VAR-1", Fob, Regular, <<"1">>), LineItem("VAR-4", Hoop, Regular, <<"a", "b", "c">>)>>,
     <<LineItem("VAR-3", Kit, Regular, <<"1">>), LineItem("VAR-1", Fob, Regular, <<"1">>)>>,
     <<CustomItem(Kit, <<"0", ".", "5">>), LineItem("ITEM-1", Hoop, Regular, <<"1">>)>>}

ReportOrders ==
    {MkOrder("", "OPEN", 0, <<Pickup("PROPOSED", Jane)>>, items) : items \in ReportItems}

DesignersHeader ==
    <<<<"D", "e", "s", "i", "g", "n", "e", "r">>, <<"R", "o", "o", "m">>,
      <<"N", "o", "t", "e", "s">>>>

\* the spreadsheet of GOOGLE_SHEET_URL at the start of a run: without
\* worksheets of ours, as an earlier run left it, with a Designers worksheet
\* only, or with a Pre-Orders worksheet only
ReportSheets ==
    {<<>>,
     ("Pre-Orders" :> <<<<SummaryCell(0), <<>>, <<>>, <<>>>>, HeadersRow>>),
     ("Pre-Orders" :>
        <<<<SummaryCell(4), <<>>, <<>>, <<>>>>, HeadersRow,
          <<Ann, <<"1", "2">>, <<"F", "o", "b">>, 9>>, BlankRow(4),
          <<Bo, <<>>, <<"K", "i", "t">>, 1>>>>)
      @@ ("Designers" :> <<DesignersHeader, <<Ann, <<"1", "2">>, <<>>>>, <<Bo, <<>>, <<>>>>>>),
     ("Designers" :> <<DesignersHeader, <<Bo, <<"7">>, <<>>>>, <<<<>>, <<"9">>, <<>>>>>>)}

InitReport ==
    /\ orders \in {WithIds(l) : l \in SeqsUpTo(ReportOrders, MaxReportOrders)}
    /\ InitGlobals
    /\ catalog = RemoteCatalog
    /\ cacheFile = <<>>
    /\ CATALOG_ITEMS_CACHE = cacheFile
    /\ fetches = <<>>
    /\ calls = <<>>
    /\ args \in [skip_preorders : BOOLEAN, skip_customer_orders : {FALSE}]
    /\ DESIGNER_ROOM_NUMBERS = <<>>
    /\ sheets \in ReportSheets
    /\ customer_sheets = <<>>
    /\ sink = <<>>
    /\ printed = <<>>
    /\ preorders = NotCalled
    /\ customers = CustomersNotCalled

\* the designers a report over ITEM_QUANTITIES can hold
DesignersOf(iq) == {extract_designer_name(iq[i].name) : i \in DOMAIN iq}

\* main() from the loop over the orders to the exit
NextMain ==
    \/ ProcessOrder
    \/ \E failing \in FailingSets, rank \in Orderings(DesignersOf(ITEM_QUANTITIES)) :
           SavePreorderData(failing, rank)
    \/ SaveCustomerOrders
    \/ SaveCatalogCache

SpecReport == InitReport /\ [][NextMain]_vars

(***************************************************************************)
(* SpecMerge: main() processes a response whose orders belong to customers *)
(* with names contained in one another (Jo, Jo Li, Jo Lin) and to one      *)
(* unrelated customer, in every order, and writes the customer sheets,     *)
(* with and without --skip-customer-orders, on a second spreadsheet as an  *)
(* earlier run left it or as it was created.                               *)
(***************************************************************************)
MaxMergeOrders == 3

Jo == <<"J", "o">>
JoLi == Jo \o <<" ", "L", "i">>
JoLin == JoLi \o <<"n">>
Max_ == <<"M", "a", "x", "!">>

MergeOrders ==
    {MkOrder("", "OPEN", 0, <<Pickup("PROPOSED", Jo)>>,
             <<LineItem("VAR-1", Widget, Regular, <<"2">>)>>),
     MkOrder("", "OPEN", 0, <<Pickup("PROPOSED", JoLi)>>,
             <<LineItem("VAR-1", Widget, Regular, <<"1">>)>>),
     MkOrder("", "OPEN", 0, <<Shipment("PROPOSED", JoLin)>>,
             <<LineItem("VAR-1", Widget, Regular, <<"1">>), CustomItem(GiftCard, <<"1">>)>>),
     MkOrder("", "OPEN", 0, <<Pickup("PROPOSED", Max_)>>,
             <<LineItem("VAR-4", Fob, Regular, <<"1">>)>>)}

MergeSheets ==
    {<<[key |-> SummaryTitle, rows |-> <<SummaryHeaders>>]>>,
     <<[key |-> SummaryTitle, rows |-> <<SummaryHeaders>>],
       [key |-> Jo, rows |-> <<<<Jo, <<>>, <<>>, <<>>>>>>]>>,
     <<[key |-> <<"S", "h", "e", "e", "t", "1">>, rows |-> <<>>]>>}

InitMerge ==
    /\ orders \in {WithIds(l) : l \in SeqsUpTo(MergeOrders, MaxMergeOrders)}
    /\ InitGlobals
    /\ catalog = RemoteCatalog
    /\ cacheFile = <<>>
    /\ CATALOG_ITEMS_CACHE = cacheFile
    /\ fetches = <<>>
    /\ calls = <<>>
    /\ args \in [skip_preorders : {FALSE}, skip_customer_orders : BOOLEAN]
    /\ DESIGNER_ROOM_NUMBERS = <<>>
    /\ sheets = <<>>
    /\ customer_sheets \in MergeSheets
    /\ sink = <<>>
    /\ printed = <<>>
    /\ preorders = NotCalled
    /\ customers = CustomersNotCalled

SpecMerge == InitMerge /\ [][NextMain]_vars

(***************************************************************************)
(* SpecSort: main() over orders of three market products of two designers  *)
(* whose item names alternate between the designers, with a Designers      *)
(* worksheet whose room cells are numbers, numbers written in two ways, or *)
(* no numbers.                                                             *)
(***************************************************************************)
MaxSortOrders == 3

Mug == PreOrderPrefix \o <<"M", "u", "g">> \o By \o Ann

SortCatalog ==
    [id \in {"VAR-1", "VAR-4", "VAR-5", "ITEM-1"} |->
        IF id = "ITEM-1" THEN Item(<<MarketCategory>>) ELSE Variation("ITEM-1")]

SortOrders ==
    {MkOrder("", "OPEN", 0, <<Pickup("PROPOSED", Jane)>>, <<LineItem(p[1], p[2], Regular, <<"1">>)>>) :
        p \in {<<"VAR-1", Fob>>, <<"VAR-4", Hoop>>, <<"VAR-5", Mug>>}}

SortSheets ==
    {("Designers" :> <<DesignersHeader, <<Ann, <<"1", "2">>, <<>>>>, <<Bo, <<"7">>, <<>>>>>>),
     ("Designers" :> <<DesignersHeader, <<Ann, <<"7">>, <<>>>>, <<Bo, <<"0", "7">>, <<>>>>>>),
     ("Designers" :> <<DesignersHeader, <<Ann, <<>>, <<>>>>, <<Bo, <<"7", "A">>, <<>>>>>>),
     ("Designers" :> <<DesignersHeader, <<Bo, <<"7">>, <<>>>>>>)}

InitSort ==
    /\ orders \in {WithIds(l) : l \in SeqsUpTo(SortOrders, MaxSortOrders)}
    /\ InitGlobals
    /\ catalog = SortCatalog
    /\ cacheFile = <<>>
    /\ CATALOG_ITEMS_CACHE = cacheFile
    /\ fetches = <<>>
    /\ calls = <<>>
    /\ args = [skip_preorders |-> FALSE, skip_customer_orders |-> TRUE]
    /\ DESIGNER_ROOM_NUMBERS = <<>>
    /\ sheets \in SortSheets
    /\ customer_sheets = <<>>
    /\ sink = <<>>
    /\ printed = <<>>
    /\ preorders = NotCalled
    /\ customers = CustomersNotCalled

SpecSort == InitSort /\ [][NextMain]_vars

(***************************************************************************)
(* SpecRun: a run from the loading of the module to the end of the         *)
(* interpreter, with every value of .env set or unset, with and without a  *)
(* credential file, with a valid, an invalid and no --start-date, with     *)
(* and without the skip flags, without a cache file or from one; the       *)
(* order search fails, answers without orders, or answers with orders, of  *)
(* which one may not be a JSON object.  SpecRunFair adds that the          *)
(* interpreter goes on: every step of a run returns and is followed by     *)
(* the next one.                                                           *)
(***************************************************************************)
MaxRunOrders == 2

BadDate == "03/01/2025"

RunEnvirons ==
    [SQUARE_API_KEY : {"sq0-key", None}, MARKET_CATEGORY_ID : {MarketCategory, None},
     GOOGLE_SHEET_URL : {Book1, None}, credentials : BOOLEAN,
     start_date : {ValidDate, BadDate, None}]

FoundOrders ==
    {MkOrder("", "OPEN", 0, <<Pickup("PROPOSED", Jane)>>, <<LineItem(p[1], p[2], Regular, <<"1">>)>>) :
        p \in {<<"VAR-1", Fob>>, <<"VAR-2", Kit>>}}

Responses ==
    {[ok |-> FALSE, body |-> <<>>], [ok |-> TRUE, body |-> <<>>]}
    \cup {[ok |-> TRUE, body |-> [orders |-> l]] :
            l \in SeqsUpTo(FoundOrders \cup {PyNone}, MaxRunOrders)}

InitRun ==
    /\ pc = "import"
    /\ orders = <<>>
    /\ idx = 0
    /\ results = <<>>
    /\ ORDER_STATUS_COUNTS = ZeroCounts
    /\ ITEM_QUANTITIES = <<>>
    /\ CUSTOMER_ORDERS = <<>>
    /\ catalog = RemoteCatalog
    /\ cacheFile \in CacheFiles \cup {NoFile}
    /\ CATALOG_ITEMS_CACHE = <<>>
    /\ fetches = <<>>
    /\ calls = <<>>
    /\ args \in [skip_preorders : BOOLEAN, skip_customer_orders : BOOLEAN]
    /\ DESIGNER_ROOM_NUMBERS = <<>>
    /\ sheets = <<>>
    /\ customer_sheets = <<>>
    /\ sink = <<>>
    /\ printed = <<>>
    /\ preorders = NotCalled
    /\ customers = CustomersNotCalled
    /\ environ \in RunEnvirons
    /\ network = <<>>
    /\ exit_code = <<>>

\* the run up to the response of the order search
StartOfRun ==
    \/ Import
    \/ Main
    \/ ParseArgs
    \/ SetupGoogleSheets
    \/ \E response \in Responses : SearchOrders(response)

NextRun == StartOfRun \/ NextMain

SpecRun == InitRun /\ [][NextRun]_vars

\* NextMain can take a step exactly at these positions of main()
InMain == pc \in {"orders", "save_preorder_data", "save_customer_orders", "exit"}

\* The interpreter executes the statement it stands at, and process_order,
\* the two reports and the exit hook return: weak fairness of StartOfRun and
\* of NextMain, the second written out as `sooner or later NextMain is not
\* enabled, or it takes steps again and again`.
SpecRunFair ==
    /\ SpecRun
    /\ WF_vars(StartOfRun)
    /\ ([]<>(~InMain) \/ []<><<NextMain>>_vars)

(***************************************************************************)
(* SpecNames: main() processes a response in which a recipient has the     *)
(* empty string as display name, next to two customers with unrelated      *)
(* names, and prepares the customer sheets with --skip-customer-orders.    *)
(***************************************************************************)
MaxNameOrders == 3

NameOrders ==
    {MkOrder("", "OPEN", 0, <<Pickup("PROPOSED", name)>>,
             <<LineItem("VAR-1", Widget, Regular, <<"1">>)>>) : name \in {<<>>, Jo, Max_}}

InitNames ==
    /\ orders \in {WithIds(l) : l \in SeqsUpTo(NameOrders, MaxNameOrders)}
    /\ InitGlobals
    /\ catalog = RemoteCatalog
    /\ cacheFile = <<>>
    /\ CATALOG_ITEMS_CACHE = cacheFile
    /\ fetches = <<>>
    /\ calls = <<>>
    /\ args = [skip_preorders |-> FALSE, skip_customer_orders |-> TRUE]
    /\ DESIGNER_ROOM_NUMBERS = <<>>
    /\ sheets = <<>>
    /\ customer_sheets \in MergeSheets
    /\ sink = <<>>
    /\ printed = <<>>
    /\ preorders = NotCalled
    /\ customers = CustomersNotCalled

SpecNames == InitNames /\ [][NextMain]_vars

(***************************************************************************)
(* SpecChain: get_catalog_item is called for one id after another on a     *)
(* remote catalog whose variations name as parent an item, a variation     *)
(* that names an item, themselves, or each other, from an empty cache.     *)
(***************************************************************************)
ChainCatalog ==
    [id \in {"VAR-A", "VAR-B", "VAR-S", "VAR-X", "VAR-Y", "ITEM-1"} |->
        CASE id = "VAR-A" -> Variation("VAR-B")
          [] id = "VAR-B" -> Variation("ITEM-1")
          [] id = "VAR-S" -> Variation("VAR-S")
          [] id = "VAR-X" -> Variation("VAR-Y")
          [] id = "VAR-Y" -> Variation("VAR-X")
          [] id = "ITEM-1" -> Item(<<MarketCategory>>)]

InitChain ==
    /\ orders = <<>>
    /\ InitGlobals
    /\ ReportIdle
    /\ catalog = ChainCatalog
    /\ cacheFile = <<>>
    /\ CATALOG_ITEMS_CACHE = cacheFile
    /\ fetches = <<>>
    /\ calls = <<>>

NextChain ==
    \E item_id \in DOMAIN ChainCatalog, failing \in FailingSets : Resolve(item_id, failing)

SpecChain == InitChain /\ [][NextChain]_vars

(***************************************************************************)
(* Properties of process_order                                             *)
(***************************************************************************)
\* the step of main() that has just passed orders[idx'] to process_order
Processed == idx' = idx + 1
Current == orders[idx']
Denied(order) == order.id \in DO_NOT_PROCESS_ORDER_IDS
Overridden(order) == get_customer_name(order) = COMPLETED_ORDER_NAME

\* the rule of the classifier that an order matches first, read off the
\* order's fields
FirstMatchingRule(order) ==
    IF order.fulfillments = <<>> THEN "NO_FULFILLMENT"
    ELSE IF order.net_amount_due_money.amount > 0 \/ order.state = "DRAFT"
         THEN "STILL_SHOPPING"
    ELSE IF order.fulfillments[1].state = "COMPLETED" THEN "COMPLETED"
    ELSE IF order.fulfillments[1].state = "PICKED_UP" THEN "PICKED_UP"
    ELSE IF order.state = "CANCELED" THEN "CANCELED"
    ELSE "NOT_FULFILLED"

\* the integer quantity of the line items of an order that carry catalog id
RECURSIVE QuantityIn(_, _)
QuantityIn(items, id) ==
    IF items = <<>> THEN 0
    ELSE (IF Get(Head(items), "catalog_object_id", None) = id
          THEN ParseQuantity(Head(items)).value ELSE 0) + QuantityIn(Tail(items), id)

CatalogIds(items) ==
    {items[i].catalog_object_id : i \in {j \in DOMAIN items : "catalog_object_id" \in DOMAIN items[j]}}

\* C1: an order that is neither deny-listed nor the override customer's adds
\* one to the counter of the first rule it matches, and to no other counter.
C1_FirstMatchingRuleIsCounted ==
    [][(Processed /\ ~Denied(Current) /\ ~Overridden(Current))
        => ORDER_STATUS_COUNTS' =
             [ORDER_STATUS_COUNTS EXCEPT ![FirstMatchingRule(Current)] = @ + 1]]_vars

\* C1 witness: an order with an amount due and a COMPLETED fulfillment has
\* been counted STILL_SHOPPING.
C1_Witness ==
    /\ idx >= 1
    /\ orders[idx].net_amount_due_money.amount > 0
    /\ orders[idx].fulfillments # <<>>
    /\ orders[idx].fulfillments[1].state = "COMPLETED"
    /\ ~Denied(orders[idx]) /\ ~Overridden(orders[idx])
    /\ ORDER_STATUS_COUNTS["STILL_SHOPPING"] = 1
    /\ ORDER_STATUS_COUNTS["COMPLETED"] = 0

\* C2: a call of process_order that does not count the order NOT_FULFILLED
\* leaves ITEM_QUANTITIES and CUSTOMER_ORDERS as they were.
C2_OnlyNotFulfilledAggregates ==
    [][(Processed /\ ORDER_STATUS_COUNTS'["NOT_FULFILLED"] = ORDER_STATUS_COUNTS["NOT_FULFILLED"])
        => UNCHANGED <<ITEM_QUANTITIES, CUSTOMER_ORDERS>>]_vars

\* C2 witness: a CANCELED order with line items has been counted CANCELED and
\* no total and no history exists.
C2_Witness ==
    /\ idx >= 1
    /\ orders[idx].line_items # <<>>
    /\ ORDER_STATUS_COUNTS["CANCELED"] = 1
    /\ ITEM_QUANTITIES = <<>>
    /\ CUSTOMER_ORDERS = <<>>

\* C9 (as claimed): a deny-listed order, whatever its fulfillment, makes
\* process_order return False and changes no counter, total or history.
C9_DenyListedChangesNothing ==
    [][(Processed /\ Denied(Current))
        => /\ results'[idx'] = FALSE
           /\ UNCHANGED <<ORDER_STATUS_COUNTS, ITEM_QUANTITIES, CUSTOMER_ORDERS>>]_vars

StillShopping(order) == order.net_amount_due_money.amount > 0 \/ order.state = "DRAFT"

\* what process_order does to an order it classifies STILL_SHOPPING
CountedStillShopping ==
    /\ ORDER_STATUS_COUNTS' = [ORDER_STATUS_COUNTS EXCEPT !["STILL_SHOPPING"] = @ + 1]
    /\ UNCHANGED <<ITEM_QUANTITIES, CUSTOMER_ORDERS>>
    /\ results'[idx'] = FALSE

\* C11 (as claimed): every order with an amount due or in DRAFT state whose
\* customer is not the override customer adds one to the STILL_SHOPPING
\* counter, and to no other, and adds nothing to the totals.
C11_StillShoppingIsCounted ==
    [][(Processed /\ StillShopping(Current) /\ ~Overridden(Current))
        => CountedStillShopping]_vars

\* C11 (amended): the same for the orders that have a fulfillment and are not
\* deny-listed; the other orders add nothing to the totals either.
C11_StillShoppingWithFulfillment ==
    [][(Processed /\ StillShopping(Current) /\ ~Overridden(Current))
        => /\ UNCHANGED <<ITEM_QUANTITIES, CUSTOMER_ORDERS>>
           /\ (Current.fulfillments # <<>> /\ ~Denied(Current)) => CountedStillShopping]_vars

\* C11 witness: a DRAFT order without amount due, with a PROPOSED fulfillment
\* and line items, has been counted STILL_SHOPPING and no total exists.
C11_Witness ==
    /\ idx >= 1
    /\ orders[idx].state = "DRAFT"
    /\ orders[idx].net_amount_due_money.amount = 0
    /\ orders[idx].fulfillments # <<>>
    /\ orders[idx].fulfillments[1].state = "PROPOSED"
    /\ ~Denied(orders[idx]) /\ ~Overridden(orders[idx])
    /\ orders[idx].line_items # <<>>
    /\ ORDER_STATUS_COUNTS = [ZeroCounts EXCEPT !["STILL_SHOPPING"] = 1]
    /\ ITEM_QUANTITIES = <<>>

\* the orders process_order counts NOT_FULFILLED
ClassifiedNotFulfilled(order) ==
    /\ order.fulfillments # <<>>
    /\ ~Denied(order)
    /\ Overridden(order) \/ FirstMatchingRule(order) = "NOT_FULFILLED"

RECURSIVE QuantityInOrders(_, _)
QuantityInOrders(os, id) ==
    IF os = <<>> THEN 0
    ELSE (IF ClassifiedNotFulfilled(Head(os)) THEN QuantityIn(Head(os).line_items, id) ELSE 0)
         + QuantityInOrders(Tail(os), id)

\* C3 (as claimed): after any sequence of orders the total of each catalog id
\* is the sum of the integer quantities of all line items carrying that id in
\* the orders counted NOT_FULFILLED.
C3_TotalIsSumOfLineItems ==
    \A id \in {"VAR-1", "VAR-2"} :
        QuantityOf(ITEM_QUANTITIES, id) = QuantityInOrders(SubSeq(orders, 1, idx), id)

\* process_order over a whole list, from the globals of a fresh run
RECURSIVE RunOrders(_, _)
RunOrders(os, st) ==
    IF os = <<>> THEN st
    ELSE LET r == process_order(Head(os), st)
         IN  RunOrders(Tail(os), [counts |-> r.counts, iq |-> r.iq, co |-> r.co])

FreshGlobals == [counts |-> ZeroCounts, iq |-> <<>>, co |-> <<>>]

QuantityMap(iq) == [id \in Keys(iq) |-> QuantityOf(iq, id)]

\* C4: once the whole list is processed, the totals are those that processing
\* any permutation of the list yields.
C4_TotalsIgnoreOrderOfOrders ==
    idx = Len(orders) =>
        \A p \in Permutations(DOMAIN orders) :
            QuantityMap(RunOrders([i \in DOMAIN orders |-> orders[p[i]]], FreshGlobals).iq)
                = QuantityMap(ITEM_QUANTITIES)

\* C4 witness: three different orders, all counted NOT_FULFILLED, have been
\* processed and two catalog ids have totals.
C4_Witness ==
    /\ idx = Len(orders) /\ idx = 3
    /\ orders[1].line_items # orders[2].line_items
    /\ orders[2].line_items # orders[3].line_items
    /\ orders[1].line_items # orders[3].line_items
    /\ ORDER_STATUS_COUNTS["NOT_FULFILLED"] = 3
    /\ QuantityOf(ITEM_QUANTITIES, "VAR-1") >= 3
    /\ QuantityOf(ITEM_QUANTITIES, "VAR-2") >= 1

\* process_order reaches the loop over the line items of the order, and
\* float() rejects the quantity of one of them
Raises(order) ==
    /\ FirstMatchingRule(order) = "NOT_FULFILLED"
    /\ ~Denied(order)
    /\ \E i \in DOMAIN get_line_items(order) : ~ParseQuantity(get_line_items(order)[i]).ok

\* C18: an error raised while process_order handles one order stays inside
\* process_order: the order is not among the successfully processed ones, and
\* main() goes on to the next order of the batch, up to the last one.
C18_ErrorFailsOneOrderOnly ==
    [][Processed
        => /\ Len(results') = idx'
           /\ Raises(Current) => ~results'[idx']
           /\ pc' = IF idx' < Len(orders) THEN "orders" ELSE "save_preorder_data"]_vars

C18_Witness ==
    /\ idx = 2
    /\ Raises(orders[1])
    /\ results = <<FALSE, TRUE>>
    /\ ORDER_STATUS_COUNTS["NOT_FULFILLED"] = 2

\* `if catalog_object_id:` fails for the line item
NoCatalogId(item) == ~Truthy(Get(item, "catalog_object_id", None))

\* the order without its line items that have no catalog id
WithoutCustomItems(order) ==
    [order EXCEPT !.line_items = SelectSeq(@, LAMBDA item : ~NoCatalogId(item))]

\* the last order summary of the customer's history
LastSummary(co, name) == HistoryOf(co, name)[Len(HistoryOf(co, name))]

\* C24: when an order is counted NOT_FULFILLED, a summary of the order is
\* appended to the history of its customer, each of its line items without
\* catalog id stands in the summary with its name and quantity, and the
\* totals become what they become without these line items.
C24_CustomItemGoesToHistoryOnly ==
    [][(Processed /\ ClassifiedNotFulfilled(Current))
        => /\ \A k \in DOMAIN get_line_items(Current) :
                  NoCatalogId(get_line_items(Current)[k])
                    => /\ Len(HistoryOf(CUSTOMER_ORDERS', get_customer_name(Current)))
                            = Len(HistoryOf(CUSTOMER_ORDERS, get_customer_name(Current))) + 1
                       /\ LastSummary(CUSTOMER_ORDERS', get_customer_name(Current)).items[k]
                            = [name |-> get_name(get_line_items(Current)[k]),
                               quantity |-> ParseQuantity(get_line_items(Current)[k]).value]
           /\ ITEM_QUANTITIES' = process_order(WithoutCustomItems(Current), Globals).iq]_vars

\* C28: an order whose processing raises part-way through its line items
\* leaves the status counters, the totals and the histories as they were.
C28_FailedOrderChangesNothing ==
    [][(Processed /\ Raises(Current))
        => UNCHANGED <<ORDER_STATUS_COUNTS, ITEM_QUANTITIES, CUSTOMER_ORDERS>>]_vars

(***************************************************************************)
(* Properties of get_catalog_item                                          *)
(***************************************************************************)
FetchesOf(id) == {i \in DOMAIN fetches : fetches[i].id = id}
ResolutionsOf(id) == {i \in DOMAIN calls : calls[i].id = id}
FirstFetchOf(id) == fetches[CHOOSE i \in FetchesOf(id) : \A j \in FetchesOf(id) : i <= j]
AllCatalogIds == DOMAIN catalog \cup {"ITEM-9"}

\* C7 (as claimed, for an id the run did not start with): an id resolved
\* twice in a run has been fetched exactly once.
C7_TwoResolutionsOneFetch ==
    \A id \in AllCatalogIds \ DOMAIN cacheFile :
        Cardinality(ResolutionsOf(id)) = 2 => Cardinality(FetchesOf(id)) = 1

\* C7 (amended): an id the cache file held is never fetched; any other id
\* that has been resolved has been fetched, and exactly once if its first
\* fetch succeeded, however often it is resolved.
C7_CachedIdIsNotFetchedAgain ==
    \A id \in AllCatalogIds :
        ResolutionsOf(id) # {} =>
            IF id \in DOMAIN cacheFile THEN FetchesOf(id) = {}
            ELSE /\ FetchesOf(id) # {}
                 /\ FirstFetchOf(id).ok => Cardinality(FetchesOf(id)) = 1

\* C7 witness: an id the cache file did not hold has been resolved twice and
\* fetched once, successfully.
C7_Witness ==
    \E id \in AllCatalogIds :
        /\ id \notin DOMAIN cacheFile
        /\ Cardinality(ResolutionsOf(id)) = 2
        /\ \A i \in ResolutionsOf(id) : calls[i].found
        /\ Cardinality(FetchesOf(id)) = 1
        /\ id \in DOMAIN CATALOG_ITEMS_CACHE

\* the caller's get_catalog_item(id) has just returned
Resolving(id) == Len(calls') = Len(calls) + 1 /\ calls'[Len(calls')].id = id

\* the ids of the requests the call sent, in the order of the requests
Fetched == [i \in 1..(Len(fetches') - Len(fetches)) |-> fetches'[Len(fetches) + i].id]

ParentIn(cat, id) == Get(Get(Get(cat, id, <<>>), "item_variation_data", <<>>), "item_id", "")

\* the ids on the parent chain of id in the remote catalog
RECURSIVE Chain(_, _)
Chain(id, seen) ==
    IF id = "" \/ id \in seen THEN seen ELSE Chain(ParentIn(catalog, id), seen \cup {id})

\* C23: the resolution of an uncached variation sends at most two requests
\* and caches nothing but the variation and its immediate parent, also when
\* the parent object names a parent itself.
C23_ResolveStopsAtTheParent ==
    [][\A id \in DOMAIN catalog :
          (Resolving(id) /\ id \notin DOMAIN CATALOG_ITEMS_CACHE
             /\ catalog[id].type = "ITEM_VARIATION")
            => /\ Len(Fetched) <= 2
               /\ DOMAIN CATALOG_ITEMS_CACHE' \ DOMAIN CATALOG_ITEMS_CACHE
                      \subseteq {id, ParentIn(catalog, id)}]_vars

\* C30: get_catalog_item returns for every id of a catalog with variations
\* that name themselves or each other as parent, and a call sends at most one
\* request for each id on the parent chain of the id it is called with.
C30_ResolveEndsOnEveryChain ==
    /\ [](Len(calls) < MaxResolves
            => \A id \in DOMAIN catalog : ENABLED Resolve(id, {}))
    /\ [][\A id \in DOMAIN catalog :
            Resolving(id)
              => /\ \A i, j \in DOMAIN Fetched : Fetched[i] = Fetched[j] => i = j
                 /\ \A i \in DOMAIN Fetched : Fetched[i] \in Chain(id, {})]_vars

\* a variation that names itself and two that name each other have been
\* resolved, each id of the cycle fetched once
C30_Witness ==
    /\ \E i, j \in DOMAIN calls :
           /\ calls[i].id = "VAR-S" /\ calls[i].found
           /\ calls[j].id = "VAR-X" /\ calls[j].found
    /\ \A id \in {"VAR-S", "VAR-X", "VAR-Y"} :
           id \in DOMAIN CATALOG_ITEMS_CACHE /\ Cardinality(FetchesOf(id)) = 1

(***************************************************************************)
(* Properties of save_preorder_data                                        *)
(***************************************************************************)
\* the catalog object of an id: the cached one, else the remote one
Known(id) ==
    IF id \in DOMAIN CATALOG_ITEMS_CACHE THEN CATALOG_ITEMS_CACHE[id] ELSE Get(catalog, id, PyNone)

ParentOf(id) == Get(Get(Known(id), "item_variation_data", <<>>), "item_id", "")

\* a lookup made for the product (of its id or of its parent) returned None
FailedLookup(id) == \E i \in DOMAIN calls : calls[i].product = id /\ ~calls[i].found

\* the product is a variation under a parent item of the market category
MarketProduct(id) ==
    /\ Get(Known(id), "type", "") = "ITEM_VARIATION"
    /\ MARKET_CATEGORY_ID \in
           CategoryIds(Get(Get(Known(ParentOf(id)), "item_data", <<>>), "categories", <<>>))

\* the data rows of the Pre-Orders worksheet
SummaryRows ==
    IF "Pre-Orders" \in DOMAIN sheets
    THEN {sheets["Pre-Orders"][i] : i \in 3..Len(sheets["Pre-Orders"])}
    ELSE {}

IsRowOf(row, item_data) ==
    /\ row[3] = extract_item_name(item_data.name)
    /\ row[1] = extract_designer_name(item_data.name)
    /\ row[4] = item_data.quantity

\* save_preorder_data has prepared a row for the product
Prepared(item_data) ==
    \E k \in DOMAIN preorders.final_data : IsRowOf(preorders.final_data[k], item_data)

\* the row prepared for the product stands in the worksheet
Written(item_data) ==
    /\ Prepared(item_data)
    /\ \E row \in SummaryRows : IsRowOf(row, item_data)

\* C8 (as claimed): when the product summary has been written, the write has
\* not been aborted, a product with a failed lookup (of its id or of its
\* parent) has no row, and every other market product has its row prepared
\* and written.
C8_FailedLookupSkipsOneProduct ==
    (preorders.called /\ ~args.skip_preorders) =>
        /\ preorders.returned
        /\ \A i \in DOMAIN ITEM_QUANTITIES :
               LET item_data == ITEM_QUANTITIES[i]
               IN  IF FailedLookup(item_data.key)
                   THEN ~Prepared(item_data)
                   ELSE MarketProduct(item_data.key) => Written(item_data)

Said(msg) == \E i \in DOMAIN printed : printed[i].msg = msg

Details(msg) == {printed[i].detail : i \in {j \in DOMAIN printed : printed[j].msg = msg}}

\* the names with the pre-order marker on which the two maps differ
Discrepant ==
    {name \in DOMAIN preorders.expected_totals \cup DOMAIN preorders.actual_totals :
        /\ IsSubstring(PreOrderMarker, lower(name))
        /\ Get(preorders.expected_totals, name, 0) # Get(preorders.actual_totals, name, 0)}

\* the orders of the customer histories that contain the name: <<order, customer>>
OrdersWith(name) ==
    UNION {{<<order.order_id, CUSTOMER_ORDERS[i].key>> :
                order \in {CUSTOMER_ORDERS[i].orders[j] :
                             j \in {j \in DOMAIN CUSTOMER_ORDERS[i].orders :
                                 \E k \in DOMAIN CUSTOMER_ORDERS[i].orders[j].items :
                                     CUSTOMER_ORDERS[i].orders[j].items[k].name = name}}} :
           i \in DOMAIN CUSTOMER_ORDERS}

\* C6: when the validation has run, the warning is printed exactly when the
\* expected and the actual map differ on some name with the pre-order marker
\* (a missing name counting as zero), one discrepancy is reported for each
\* such name and for no other, with the two totals, and it lists exactly the
\* customer orders that contain the name.
C6_WarningIffMapsDiffer ==
    Said("Pre-Order Quantity Validation:") =>
        /\ Said("Warning: Discrepancies found") <=> Discrepant # {}
        /\ Said("All pre-order quantities match expected totals!") \/
           Said("No pre-order items found to validate") <=> Discrepant = {}
        /\ {d.item : d \in Details("Discrepancy found for:")} = Discrepant
        /\ \A d \in Details("Discrepancy found for:") :
               /\ d.expected = Get(preorders.expected_totals, d.item, 0)
               /\ d.actual = Get(preorders.actual_totals, d.item, 0)
               /\ {<<d.orders[k].order_id, d.orders[k].customer_name>> : k \in DOMAIN d.orders}
                      = OrdersWith(d.item)

\* the validation has reported two names at once: one that only the actual
\* map holds, and one that customer orders contain
C6_Witness ==
    /\ Said("Warning: Discrepancies found")
    /\ \E name \in Discrepant : name \notin DOMAIN preorders.expected_totals
    /\ \E d \in Details("Discrepancy found for:") : d.orders # <<>>

\* the positions of the sink log that hold a call to a spreadsheet
CallsTo(book) == {i \in DOMAIN sink : sink[i].book = book}

\* C13 (as claimed): a report whose skip flag is set sends no call to its
\* spreadsheet, whatever worksheets the spreadsheet holds.
C13_SkipIssuesNoMutatingCall ==
    /\ args.skip_preorders => CallsTo(Book1) = {}
    /\ args.skip_customer_orders => CallsTo(Book2) = {}

\* C14 (as claimed): when the dry run of the product summary has returned,
\* whatever worksheets the spreadsheet holds, the row of every market
\* product whose lookups succeeded has been prepared and the validation has
\* run.
C14_DryRunStillValidates ==
    (preorders.called /\ args.skip_preorders) =>
        /\ \A i \in DOMAIN ITEM_QUANTITIES :
               (MarketProduct(ITEM_QUANTITIES[i].key) /\ ~FailedLookup(ITEM_QUANTITIES[i].key))
                   => Prepared(ITEM_QUANTITIES[i])
        /\ Said("Pre-Order Quantity Validation:")

\* C15 (as claimed): in the log of the sink every call to a spreadsheet that
\* another entry follows is followed by the cooldown sleep, so that no two
\* calls are sent without a sleep between them.
C15_CooldownAfterEveryWrite ==
    \A i \in 1..(Len(sink) - 1) : sink[i] # Sleep => sink[i + 1] = Sleep

\* a blank separator row of final_data
IsBlank(row) == row[1] = <<>> /\ row[3] = <<>>

\* the rows of final_data that are not separators
ProductRows == SelectSeq(preorders.final_data, LAMBDA row : ~IsBlank(row))

\* C16 (as claimed): in the rows prepared for the product summary the room
\* numbers never ascend and the item names of rows with one room number
\* ascend, a separator stands exactly between two consecutive product rows
\* whose room cells differ, and the rows of one room cell are contiguous.
C16_RoomsFormContiguousBlocks ==
    preorders.returned =>
        LET final == preorders.final_data
            rows == ProductRows
        IN  /\ \A i \in 1..(Len(rows) - 1) :
                   \/ room_num_sort(rows[i][2]) > room_num_sort(rows[i + 1][2])
                   \/ /\ room_num_sort(rows[i][2]) = room_num_sort(rows[i + 1][2])
                      /\ rows[i][2] = rows[i + 1][2] => ~StrLess(rows[i + 1][3], rows[i][3])
            /\ \A i \in 1..(Len(final) - 1) :
                   (~IsBlank(final[i]) /\ ~IsBlank(final[i + 1])) => final[i][2] = final[i + 1][2]
            /\ \A i \in DOMAIN final :
                   IsBlank(final[i]) =>
                       /\ 1 < i /\ i < Len(final)
                       /\ ~IsBlank(final[i - 1]) /\ ~IsBlank(final[i + 1])
                       /\ final[i - 1][2] # final[i + 1][2]
            /\ \A i, j, k \in DOMAIN rows :
                   (i < j /\ j < k /\ rows[i][2] = rows[k][2]) => rows[j][2] = rows[i][2]

\* the products of the totals that are variations under a market item
MarketProducts == {i \in DOMAIN ITEM_QUANTITIES : MarketProduct(ITEM_QUANTITIES[i].key)}

Related(a, b) == IsSubstring(a, b) \/ IsSubstring(b, a)

\* every order of the history of name stands in the merged history under key
FoldedInto(name, key) ==
    \A j \in DOMAIN HistoryOf(CUSTOMER_ORDERS, name) :
        \E k \in DOMAIN HistoryOf(customers.merged_orders, key) :
            HistoryOf(customers.merged_orders, key)[k] = HistoryOf(CUSTOMER_ORDERS, name)[j]

\* C5 (as claimed): after the merge, for three distinct customer names a, b,
\* c of the customer map, a contained in b and b in c, and no other name
\* related to them, the merged orders hold the histories of all three under
\* c, and neither a nor b has an entry of its own.
C5_ChainMergesIntoLongest ==
    customers.called =>
        \A a, b, c \in Keys(CUSTOMER_ORDERS) :
            (/\ a # b /\ b # c /\ a # c
             /\ IsSubstring(a, b) /\ IsSubstring(b, c)
             /\ \A d \in Keys(CUSTOMER_ORDERS) \ {a, b, c} :
                    ~Related(d, a) /\ ~Related(d, b) /\ ~Related(d, c))
            => /\ HasKey(customers.merged_orders, c)
               /\ FoldedInto(a, c) /\ FoldedInto(b, c) /\ FoldedInto(c, c)
               /\ ~HasKey(customers.merged_orders, a)
               /\ ~HasKey(customers.merged_orders, b)

\* the quantities of the line items called name in the orders of a history
QuantityNamed(history, name) ==
    LET items == Flatten([j \in DOMAIN history |-> history[j].items])
    IN  SumSeq([k \in DOMAIN items |-> IF items[k].name = name THEN items[k].quantity ELSE 0])

NonEmptySubstring(a, b) ==
    \/ a # <<>> /\ IsSubstring(a, b)
    \/ b # <<>> /\ IsSubstring(b, a)

\* C25: two distinct names stand in the same list of merged_customers only
\* when one is a non-empty substring of the other, and a customer whose name
\* is the empty string keeps an entry of its own with its own orders.
C25_OnlyNonEmptySubstringsMerge ==
    customers.called =>
        /\ \A g \in DOMAIN customers.merged_customers :
               \A i, j \in DOMAIN customers.merged_customers[g].names :
                   i # j => NonEmptySubstring(customers.merged_customers[g].names[i],
                                              customers.merged_customers[g].names[j])
        /\ HasKey(CUSTOMER_ORDERS, <<>>)
             => /\ HasKey(customers.merged_orders, <<>>)
                /\ HistoryOf(customers.merged_orders, <<>>) = HistoryOf(CUSTOMER_ORDERS, <<>>)

\* the order summaries of all histories of a customer map, one after another
AllOrders(h) == Flatten([i \in DOMAIN h |-> h[i].orders])

\* the places where the histories of a customer map hold the summary s
PlacesOf(h, s) == {<<i, k>> \in (DOMAIN h) \X (DOMAIN AllOrders(h)) :
                      k \in DOMAIN h[i].orders /\ h[i].orders[k] = s}

\* C27: after the merge every order summary of CUSTOMER_ORDERS stands at
\* exactly one place of the merged histories, the merged histories hold as
\* many summaries as CUSTOMER_ORDERS and none that CUSTOMER_ORDERS does not
\* hold; and the merge leaves CUSTOMER_ORDERS as it was.
C27_MergeConservesOrders ==
    /\ [](customers.called =>
            /\ \A k \in DOMAIN AllOrders(CUSTOMER_ORDERS) :
                   Cardinality(PlacesOf(customers.merged_orders,
                                        AllOrders(CUSTOMER_ORDERS)[k])) = 1
            /\ Len(AllOrders(customers.merged_orders)) = Len(AllOrders(CUSTOMER_ORDERS))
            /\ \A k \in DOMAIN AllOrders(customers.merged_orders) :
                   PlacesOf(CUSTOMER_ORDERS, AllOrders(customers.merged_orders)[k]) # {})
    /\ [][pc = "save_customer_orders" => CUSTOMER_ORDERS' = CUSTOMER_ORDERS]_vars

\* C27 witness: three customers of whom one is named within both others have
\* been merged into two histories, one of them of two orders.
C27_Witness ==
    /\ customers.called
    /\ Len(CUSTOMER_ORDERS) = 3
    /\ Len(customers.merged_orders) = 2
    /\ Len(AllOrders(CUSTOMER_ORDERS)) = 3
    /\ \E i \in DOMAIN customers.merged_orders : Len(customers.merged_orders[i].orders) = 2

(***************************************************************************)
(* Properties of main                                                      *)
(***************************************************************************)
\* main() has registered save_catalog_cache and the interpreter runs
MainStarted ==
    pc \in {"parse_args", "setup_google_sheets", "search_orders", "orders",
            "save_preorder_data", "save_customer_orders", "exit"}

\* the interpreter has ended and the cache file holds the cache
Flushed == pc = "done" /\ cacheFile = CATALOG_ITEMS_CACHE

\* the objects the catalog requests of the run returned
FetchedIds == {fetches[i].id : i \in {j \in DOMAIN fetches : fetches[j].ok}}

SearchFailed == Said("Error making request to Square API")

\* C19: when the order search fails, the run ends with a non-zero exit status,
\* no order has been processed and nothing has been sent to the sink.
C19_FailedSearchEndsTheRun ==
    SearchFailed
        => /\ pc \in {"exit", "done"}
           /\ exit_code = <<1>>
           /\ idx = 0 /\ results = <<>> /\ orders = <<>>
           /\ ORDER_STATUS_COUNTS = ZeroCounts /\ ITEM_QUANTITIES = <<>> /\ CUSTOMER_ORDERS = <<>>
           /\ ~preorders.called /\ ~customers.called
           /\ sink = <<>>

C19_Witness ==
    /\ SearchFailed
    /\ pc = "done"
    /\ network = <<SearchRequest>>
    /\ exit_code = <<1>>

\* a value the run reads is missing
MissingValue ==
    \/ ~Truthy(environ.SQUARE_API_KEY)
    \/ ~Truthy(environ.GOOGLE_SHEET_URL)
    \/ ~environ.credentials
    \/ ~Truthy(environ.MARKET_CATEGORY_ID)

\* C20: when the API key, the sheet URL, the credential file or the market
\* category id is missing, the run makes no network call: no order search, no
\* catalog request, no request to the sink.
C20_MissingValueAbortsBeforeNetwork ==
    MissingValue => network = <<>> /\ fetches = <<>> /\ sink = <<>>

(***************************************************************************)
(* Properties of the validation                                            *)
(***************************************************************************)
\* save_preorder_data, the validation at its end included, has just returned
ReportReturned == pc = "save_preorder_data" /\ pc' # pc

\* save_customer_orders has just returned
CustomerReportReturned == pc = "save_customer_orders" /\ pc' # pc

\* C21: the validation only diagnoses: the totals, the histories and the
\* status counters are after save_preorder_data what they were before it, and
\* after a discrepancy main() still calls save_customer_orders, which writes
\* the customer sheets.
C21_ValidationOnlyDiagnoses ==
    [][/\ ReportReturned
            => /\ UNCHANGED <<ITEM_QUANTITIES, CUSTOMER_ORDERS, ORDER_STATUS_COUNTS>>
               /\ pc' = "save_customer_orders"
       /\ (CustomerReportReturned /\ Said("Warning: Discrepancies found"))
            => /\ customers'.called
               /\ \E i \in DOMAIN sink' : sink'[i].book = Book2 /\ sink'[i].op = "update"]_vars

C21_Witness ==
    /\ Said("Warning: Discrepancies found")
    /\ customers.called
    /\ \E i \in DOMAIN sink : sink[i].book = Book2 /\ sink[i].op = "update"

(***************************************************************************)
(* Properties of the Designers worksheet                                   *)
(***************************************************************************)

\* column A of the rows of a worksheet
ColumnA(rows) == {rows[k][1] : k \in DOMAIN rows}

\* C26: when save_preorder_data has written a report on a spreadsheet that
\* had a Designers worksheet, the rows the worksheet had are as they were,
\* the rows below them hold the designers of the report that column A did
\* not hold, and the update of the Designers worksheet run once more on the
\* same data leaves the worksheet as it is.
C26_NewDesignersAreAppendedOnce ==
    [][(ReportReturned /\ preorders'.returned /\ ~args.skip_preorders
          /\ "Designers" \in DOMAIN sheets)
        => /\ \A k \in DOMAIN sheets["Designers"] :
                  sheets'["Designers"][k] = sheets["Designers"][k]
           /\ \A k \in (DOMAIN sheets'["Designers"]) \ (DOMAIN sheets["Designers"]) :
                  /\ sheets'["Designers"][k][1] \in designers(preorders'.data)
                  /\ sheets'["Designers"][k][1] \notin ColumnA(sheets["Designers"])
           /\ \A rank \in Orderings(DesignersOf(ITEM_QUANTITIES)) :
                  UpdateDesigners([sheets |-> sheets', sink |-> <<>>], preorders'.data,
                                  rank, FALSE).sheets = sheets']_vars

(***************************************************************************)
(* Properties of the validator                                             *)
(***************************************************************************)
\* every order has been processed without error and aggregated, every line
\* item names a variation under a market item, and no lookup has failed
OnlyMarketProductsOrdered ==
    /\ Len(results) = Len(orders)
    /\ \A i \in DOMAIN orders :
           /\ results[i]
           /\ ~Raises(orders[i])
           /\ \A k \in DOMAIN get_line_items(orders[i]) :
                  /\ ~NoCatalogId(get_line_items(orders[i])[k])
                  /\ MarketProduct(get_line_items(orders[i])[k].catalog_object_id)
                  /\ ~FailedLookup(get_line_items(orders[i])[k].catalog_object_id)

\* C29 (as claimed): when save_preorder_data has returned after orders that
\* were all processed without error and whose line items all name market
\* products, the expected total and the actual total of every item name with
\* the pre-order marker are equal and no discrepancy has been reported.
C29_ValidatorFindsTotalsEqual ==
    (preorders.returned /\ OnlyMarketProductsOrdered) =>
        /\ Discrepant = {}
        /\ ~Said("Discrepancy found for")
        /\ ~Said("Warning: Discrepancies found")

====
